---- MODULE Spec2Model ----
(***************************************************************************)
(* A model of the task execution engine of llm_agent:                      *)
(*   - Agent.execute_task and its helpers (src/llm_agent/agent.py),        *)
(*   - TaskState (src/llm_agent/state/task_state.py),                      *)
(*   - JsonStateStorage (src/llm_agent/state/storage/__init__.py),         *)
(*   - DebugSession (src/llm_agent/debug/__init__.py),                     *)
(*   - RateLimiter (src/llm_agent/llm/rate_limiter.py).                    *)
(*                                                                         *)
(* Specification Spec is the engine running a task; SpecReuse is one       *)
(* engine given several tasks in turn; SpecStore is the two storage        *)
(* backends receiving the same calls; SpecRL is one RateLimiter shared     *)
(* by concurrent callers, SpecRLFair the same with the fairness of the     *)
(* asyncio event loop and of the clock.                                    *)
(*                                                                         *)
(* Conventions: Python's None is NoText ("") for optional text, NoId       *)
(* (<<>>) for an optional id and NoState for an absent snapshot.  An id is *)
(* the sequence of the numbers its text is made of: a uuid4() is <<n>>     *)
(* with n fresh, the checkpoint "1_2" is <<1, 2>>.  datetime values are    *)
(* readings of a logical clock.                                            *)
(***************************************************************************)
EXTENDS Integers, Sequences, FiniteSets, TLC

\* ------------------------------------------------------------------ bounds
\* The oracle names a tool only in the first MaxToolIter iterations of a task
\* and in the last one (iteration max_iterations).
MaxToolIter == 2
\* Configured max_consecutive_auto_approvals ranges over 0..MaxAutoBound.
MaxAutoBound == 1
\* Configured max_checkpoints ranges over 0..MaxCkptBound.
MaxCkptBound == 1

\* In SpecStore at most MaxStoreOps calls are made on the stores.
MaxStoreOps == 4
\* In SpecReuse the oracle completes each task in iteration ReuseHorizon at
\* the latest.
ReuseHorizon == 2
\* In SpecChain the oracle completes the task in iteration CkptHorizon at
\* the latest.
CkptHorizon == 3
\* In SpecTaskState at most MaxStateOps methods of the TaskState are called.
MaxStateOps == 4
\* In SpecDebug a DebugSession holds at most MaxBreakpoints breakpoints.
MaxBreakpoints == 2

\* ------------------------------------------------------- program constants
\* agent.py:157  max_iterations = 50
max_iterations == 50

NoText == ""
NoId == <<>>
NoState == [absent |-> TRUE]
\* None where a datetime is optional; a datetime is [datetime |-> t].
NoTime == [none |-> TRUE]

\* The registered tools (Agent.tools) and the names an oracle may produce.
RegisteredTools == {"echo"}
ToolNames == RegisteredTools \cup {"ghost"}
\* Messages of exceptions raised by the collaborators (oracle, callbacks, tools).
ExcMsgs == {"boom"}
\* The message of the RuntimeError raised at the iteration limit.
IterationLimitMsg == "Task execution exceeded maximum iterations"
BreakpointTypes == {"tool", "state", "llm"}

\* str() of an optional string, as an f-string formats it.
str(x) == IF x = NoText THEN "None" ELSE x

\* ---------------------------------------------------------------- TaskState
\* TaskState() as constructed by Agent.__init__ (pydantic field defaults).
TaskState0 ==
    [task |-> NoText, task_id |-> NoId, tool_executions |-> <<>>,
     end_time |-> NoTime, is_complete |-> FALSE, is_failed |-> FALSE,
     error_message |-> NoText, consecutive_auto_approvals |-> 0,
     messages |-> <<>>, user_inputs |-> <<>>, related_tasks |-> <<>>,
     context |-> <<>>]

\* start_new_task that leaves is_failed as it was.
start_new_task_keeping_is_failed(s, task, tid) ==
    [s EXCEPT !.task = task, !.task_id = tid, !.tool_executions = <<>>,
              !.end_time = NoTime, !.is_complete = FALSE,
              !.error_message = NoText, !.consecutive_auto_approvals = 0,
              !.messages = <<>>, !.user_inputs = <<>>]

\* start_new_task that also empties the context.
start_new_task_clearing_context(s, task, tid) ==
    [s EXCEPT !.task = task, !.task_id = tid, !.tool_executions = <<>>,
              !.end_time = NoTime, !.is_complete = FALSE, !.is_failed = FALSE,
              !.error_message = NoText, !.consecutive_auto_approvals = 0,
              !.messages = <<>>, !.user_inputs = <<>>, !.context = <<>>]

\* TaskState.start_new_task: context and related_tasks are kept.
start_new_task(s, task, tid) ==
    [s EXCEPT !.task = task, !.task_id = tid, !.tool_executions = <<>>,
              !.end_time = NoTime, !.is_complete = FALSE, !.is_failed = FALSE,
              !.error_message = NoText, !.consecutive_auto_approvals = 0,
              !.messages = <<>>, !.user_inputs = <<>>]

\* TaskState.add_tool_result
add_tool_result(s, tool_name, result, args, now) ==
    [s EXCEPT !.tool_executions =
        Append(@, [tool_name |-> tool_name, args |-> args, result |-> result,
                   timestamp |-> [datetime |-> now]])]

\* add_message that puts the new message in front of the others.
add_message_at_front(s, role, content, now) ==
    [s EXCEPT !.messages = <<[role |-> role, content |-> content,
                              timestamp |-> [datetime |-> now]]>> \o @]

\* TaskState.add_message
add_message(s, role, content, now) ==
    [s EXCEPT !.messages = Append(@, [role |-> role, content |-> content,
                                      timestamp |-> [datetime |-> now]])]

\* TaskState.add_user_input
add_user_input(s, content, now) ==
    [s EXCEPT !.user_inputs = Append(@, [content |-> content,
                                         timestamp |-> [datetime |-> now]])]

\* TaskState.add_related_task
add_related_task(s, tid, description, relevance_score, completed, now) ==
    [s EXCEPT !.related_tasks =
        Append(@, [task_id |-> tid, description |-> description,
                   relevance_score |-> relevance_score, completed |-> completed,
                   timestamp |-> [datetime |-> now]])]

\* TaskState.update_context: dict.update with a sequence of <<key, value>> pairs.
update_context(s, updates) ==
    [s EXCEPT !.context =
        SelectSeq(@, LAMBDA kv : \A i \in 1..Len(updates) : updates[i][1] # kv[1])
        \o updates]

\* TaskState.mark_complete
mark_complete(s, now) ==
    [s EXCEPT !.is_complete = TRUE, !.end_time = [datetime |-> now]]

\* TaskState.mark_failed
mark_failed(s, error_message, now) ==
    [s EXCEPT !.is_failed = TRUE, !.is_complete = TRUE,
              !.error_message = error_message, !.end_time = [datetime |-> now]]

\* TaskState.reset_auto_approvals
reset_auto_approvals(s) == [s EXCEPT !.consecutive_auto_approvals = 0]

\* TaskState.increment_auto_approvals
increment_auto_approvals(s) ==
    [s EXCEPT !.consecutive_auto_approvals = @ + 1]

\* ------------------------------------------------------------- StateStorage
\* The methods StateStorage(ABC) declares with @abstractmethod.
abstractmethods ==
    {"save_state", "load_state", "create_checkpoint", "restore_checkpoint",
     "list_checkpoints", "get_related_tasks", "search_task_history"}

\* The methods the class JsonStateStorage defines and those the class
\* SqliteStateStorage defines.
JsonStateStorage_defines ==
    {"__init__", "save_state", "load_state", "create_checkpoint",
     "restore_checkpoint", "list_checkpoints", "get_related_tasks",
     "search_task_history", "_compute_context_similarity"}
SqliteStateStorage_defines ==
    {"__init__", "_init_db", "save_state", "load_state", "get_related_tasks",
     "search_task_history"}

\* Calling a subclass of StateStorage: when the class leaves an abstract
\* method undefined, TypeError is raised before __init__ runs; otherwise
\* the call returns the instance __init__ has set up.
Instantiate(defines, instance) ==
    IF abstractmethods \subseteq defines THEN instance
    ELSE [kind |-> "raise", value |-> "TypeError"]

\* The call of the class returned a store.
Constructed(store) == DOMAIN store # {"kind", "value"}

\* --------------------------------------------------------- JsonStateStorage
\* The storage directory: states/<id>.json, states/<id>_messages.json,
\* context/<id>_context.json and checkpoints/<id>_<n>.json, each a function
\* from the file's key to its content.
Storage0 == [states |-> <<>>, messages |-> <<>>, context |-> <<>>,
             checkpoints |-> {}]

\* Writing a file: open(path, "w") creates or overwrites.
WriteFile(dir, key, doc) ==
    [k \in DOMAIN dir \cup {key} |-> IF k = key THEN doc ELSE dir[k]]

\* DateTimeJSONEncoder.default: a datetime is written as the object
\* {"__type__": "datetime", "value": isoformat}; None is written as null.
DateTimeJSONEncoder(obj) ==
    IF obj = NoTime THEN obj
    ELSE [type |-> "datetime", value |-> obj.datetime]

\* json_decoder_hook: an object with "__type__" = "datetime" is read back as
\* the datetime of its value; anything else is returned as it is.
json_decoder_hook(obj) ==
    IF "type" \in DOMAIN obj /\ obj.type = "datetime"
    THEN [datetime |-> obj.value]
    ELSE obj

\* json.dump of a list of messages or tool executions: each timestamp goes
\* through the encoder.
json_dump_list(xs) ==
    [i \in 1..Len(xs) |-> [xs[i] EXCEPT !.timestamp = DateTimeJSONEncoder(@)]]

\* json.load(f, object_hook=json_decoder_hook) of such a list.
json_load_list(xs) ==
    [i \in 1..Len(xs) |-> [xs[i] EXCEPT !.timestamp = json_decoder_hook(@)]]

\* json.dump(state, cls=DateTimeJSONEncoder) of a TaskState dict.
json_dump(st) ==
    [st EXCEPT !.end_time = DateTimeJSONEncoder(@),
               !.messages = json_dump_list(@),
               !.user_inputs = json_dump_list(@),
               !.related_tasks = json_dump_list(@),
               !.tool_executions = json_dump_list(@)]

\* json.load(f, object_hook=json_decoder_hook) of a state file.
json_load(doc) ==
    [doc EXCEPT !.end_time = json_decoder_hook(@),
                !.messages = json_load_list(@),
                !.user_inputs = json_load_list(@),
                !.related_tasks = json_load_list(@),
                !.tool_executions = json_load_list(@)]

\* JsonStateStorage.save_state
save_state(fs, tid, st) ==
    [fs EXCEPT !.states = WriteFile(@, tid, json_dump(st)),
               !.messages = WriteFile(@, tid, json_dump_list(st.messages)),
               !.context = WriteFile(@, tid, st.context)]

\* JsonStateStorage.load_state
load_state(fs, tid) ==
    IF tid \notin DOMAIN fs.states THEN NoState
    ELSE [json_load(fs.states[tid]) EXCEPT
            !.messages = IF tid \in DOMAIN fs.messages
                         THEN json_load_list(fs.messages[tid]) ELSE @,
            !.context = IF tid \in DOMAIN fs.context THEN fs.context[tid] ELSE @]

\* An id is the sequence of the parts its text has between underscores: a
\* uuid4() is <<n>>, "1_2" is <<1, 2>>.  IsProperPrefix(p, q): the text of q
\* starts with the text of p followed by an underscore.
IsProperPrefix(p, q) ==
    /\ Len(p) < Len(q)
    /\ \A i \in 1..Len(p) : p[i] = q[i]

\* The glob f"{task_id}_*.json" of list_checkpoints applied to the file
\* f"{checkpoint.id}.json".
CheckpointFileMatches(tid, ck) == IsProperPrefix(tid, ck.id)

\* sorted(checkpoints, key=timestamp): timestamps of checkpoints are distinct.
RECURSIVE SortByTimestamp(_)
SortByTimestamp(cks) ==
    IF cks = {} THEN <<>>
    ELSE LET first == CHOOSE c \in cks : \A d \in cks : c.timestamp <= d.timestamp
         IN <<first>> \o SortByTimestamp(cks \ {first})

\* JsonStateStorage.list_checkpoints
list_checkpoints(fs, tid) ==
    SortByTimestamp({ck \in fs.checkpoints : CheckpointFileMatches(tid, ck)})

\* A checkpoint whose parent is the first checkpoint of the task.
new_checkpoint_parent_first(fs, tid, description, now) ==
    LET state == load_state(fs, tid)
        checkpoints == list_checkpoints(fs, tid)
        parent_id == IF Len(checkpoints) > 0 THEN checkpoints[1].id ELSE NoId
    IN [id |-> Append(tid, Len(checkpoints) + 1), timestamp |-> now,
        task_id |-> tid, description |-> description,
        state |-> state, parent_id |-> parent_id]

\* The Checkpoint object create_checkpoint builds and returns (lines
\* 141-153), for a task with a stored state.
new_checkpoint(fs, tid, description, now) ==
    LET state == load_state(fs, tid)
        checkpoints == list_checkpoints(fs, tid)
        parent_id == IF Len(checkpoints) > 0
                     THEN checkpoints[Len(checkpoints)].id ELSE NoId
    IN [id |-> Append(tid, Len(checkpoints) + 1), timestamp |-> now,
        task_id |-> tid, description |-> description,
        state |-> state, parent_id |-> parent_id]

\* create_checkpoint that numbers the new file after the last one, so that
\* a second checkpoint is written over the first.
create_checkpoint_overwriting(fs, tid, description, now) ==
    LET checkpoint == new_checkpoint(fs, tid, description, now)
        checkpoint_data == [checkpoint EXCEPT !.state = json_dump(@),
                                              !.id = Append(tid, 1)]
    IN [fs EXCEPT !.checkpoints =
            {c \in @ : c.id # checkpoint_data.id} \cup {checkpoint_data}]

\* JsonStateStorage.create_checkpoint, for a task with a stored state: the
\* new checkpoint file, with the state as json.dump writes it, replaces a
\* file of the same id.
create_checkpoint(fs, tid, description, now) ==
    LET checkpoint == new_checkpoint(fs, tid, description, now)
        checkpoint_data == [checkpoint EXCEPT !.state = json_dump(@)]
    IN [fs EXCEPT !.checkpoints =
            {c \in @ : c.id # checkpoint.id} \cup {checkpoint_data}]

\* create_checkpoint that also refuses a state without messages.
create_checkpoint_raises_without_messages(fs, tid) ==
    \/ load_state(fs, tid) = NoState
    \/ load_state(fs, tid).messages = <<>>

\* create_checkpoint raises ValueError when load_state finds nothing.
create_checkpoint_raises(fs, tid) == load_state(fs, tid) = NoState

\* restore_checkpoint raises ValueError when the checkpoint file is absent.
restore_checkpoint_raises(fs, checkpoint_id) ==
    \A c \in fs.checkpoints : c.id # checkpoint_id

\* What restore_checkpoint returns: the state of the checkpoint file, read
\* with json_decoder_hook.
restored_state(fs, checkpoint_id) ==
    json_load((CHOOSE c \in fs.checkpoints : c.id = checkpoint_id).state)

\* A restore that returns the state without saving it.
restore_checkpoint_without_save(fs, checkpoint_id) == fs

\* JsonStateStorage.restore_checkpoint for an existing checkpoint file: the
\* state is saved under the task id recorded in the file.
restore_checkpoint(fs, checkpoint_id) ==
    LET data == CHOOSE c \in fs.checkpoints : c.id = checkpoint_id
    IN save_state(fs, data.task_id, json_load(data.state))

\* JsonStateStorage._compute_context_similarity.  The float
\* matching_values / max(len(ctx1), len(ctx2)) is the quotient in lowest
\* terms, <<numerator, denominator>>: two divisions of small integers give
\* equal floats exactly when their quotients are equal (<<0, 1>> is 0.0).
compute_context_similarity(ctx1, ctx2) ==
    LET keys(c) == {c[i][1] : i \in 1..Len(c)}
        val(c, k) == (CHOOSE i \in 1..Len(c) : c[i][1] = k)
        shared_keys == keys(ctx1) \cap keys(ctx2)
        matching_values ==
            Cardinality({k \in shared_keys :
                            ctx1[val(ctx1, k)][2] = ctx2[val(ctx2, k)][2]})
        larger == IF Len(ctx1) >= Len(ctx2) THEN Len(ctx1) ELSE Len(ctx2)
        divisors == {d \in 1..larger : matching_values % d = 0 /\ larger % d = 0}
        gcd == CHOOSE d \in divisors : \A e \in divisors : e <= d
    IN IF shared_keys = {} THEN <<0, 1>>
       ELSE <<matching_values \div gcd, larger \div gcd>>

\* The orders in which a glob over a directory can yield the files of the
\* keys in S: the sequences without repetition of all of them.
Orderings(S) ==
    {p \in [1..Cardinality(S) -> S] : \A i, j \in 1..Cardinality(S) : i # j => p[i] # p[j]}

\* xs[:limit]
Take(xs, limit) == SubSeq(xs, 1, IF limit < Len(xs) THEN limit ELSE Len(xs))

\* A float <<a, b>> is greater than a float <<c, d>> (b, d positive).
Greater(p, q) == p[1] * q[2] > q[1] * p[2]

\* related.sort(key=similarity, reverse=True): the sort is stable, entries of
\* equal similarity keep the order in which they were appended.
RECURSIVE SortBySimilarity(_)
SortBySimilarity(related) ==
    IF related = <<>> THEN <<>>
    ELSE LET first == CHOOSE i \in 1..Len(related) :
                        /\ \A j \in 1..Len(related) :
                              ~Greater(related[j].similarity, related[i].similarity)
                        /\ \A j \in 1..(i - 1) :
                              Greater(related[i].similarity, related[j].similarity)
         IN <<related[first]>> \o
            SortBySimilarity(SubSeq(related, 1, first - 1)
                             \o SubSeq(related, first + 1, Len(related)))

\* storage/__init__.py:200, agent.py:106  limit: int = 5
related_limit == 5

\* JsonStateStorage.get_related_tasks: paths is the order in which the glob
\* yields the state files (their stems).  The other tasks of positive
\* context similarity, sorted by similarity, the greatest first, cut at limit.
get_related_tasks(fs, tid, limit, paths) ==
    IF load_state(fs, tid) = NoState THEN <<>>
    ELSE LET current_state == load_state(fs, tid)
             entry(other_id) ==
                 [task_id |-> other_id,
                  task |-> load_state(fs, other_id).task,
                  similarity |-> compute_context_similarity(
                                     current_state.context,
                                     load_state(fs, other_id).context),
                  completed |-> load_state(fs, other_id).is_complete]
             candidates == SelectSeq(paths, LAMBDA other_id :
                               /\ other_id # tid
                               /\ entry(other_id).similarity[1] > 0)
         IN Take(SortBySimilarity([i \in 1..Len(candidates) |-> entry(candidates[i])]),
                 limit)

\* str.lower() of one ASCII character.
LowerChar(c) ==
    CASE c = "A" -> "a" [] c = "B" -> "b" [] c = "C" -> "c" [] c = "D" -> "d"
      [] c = "E" -> "e" [] c = "F" -> "f" [] c = "G" -> "g" [] c = "H" -> "h"
      [] c = "I" -> "i" [] c = "J" -> "j" [] c = "K" -> "k" [] c = "L" -> "l"
      [] c = "M" -> "m" [] c = "N" -> "n" [] c = "O" -> "o" [] c = "P" -> "p"
      [] c = "Q" -> "q" [] c = "R" -> "r" [] c = "S" -> "s" [] c = "T" -> "t"
      [] c = "U" -> "u" [] c = "V" -> "v" [] c = "W" -> "w" [] c = "X" -> "x"
      [] c = "Y" -> "y" [] c = "Z" -> "z" [] OTHER -> c

\* str.lower()
RECURSIVE lower(_)
lower(text) ==
    IF text = "" THEN ""
    ELSE LowerChar(SubSeq(text, 1, 1)) \o lower(SubSeq(text, 2, Len(text)))

\* part in text, for strings.
Contains(text, part) ==
    \E i \in 0..(Len(text) - Len(part)) : SubSeq(text, i + 1, i + Len(part)) = part

\* storage/__init__.py:244  query.lower() in msg.get("content", "").lower()
ContentMatches(content, query) == Contains(lower(content), lower(query))

\* results.sort(key=score, reverse=True): stable, results of equal score
\* keep the order in which they were appended.
RECURSIVE SortByScore(_)
SortByScore(results) ==
    IF results = <<>> THEN <<>>
    ELSE LET first == CHOOSE i \in 1..Len(results) :
                        /\ \A j \in 1..Len(results) : results[j][2] <= results[i][2]
                        /\ \A j \in 1..(i - 1) : results[j][2] < results[i][2]
         IN <<results[first]>> \o
            SortByScore(SubSeq(results, 1, first - 1)
                        \o SubSeq(results, first + 1, Len(results)))

\* storage/__init__.py:233, agent.py:110  limit: int = 10
search_limit == 10

\* JsonStateStorage.search_task_history: paths is the order in which the
\* glob yields the messages files (their task ids).  The (task_id, score)
\* pairs of positive score, score being the number of messages of the file
\* that match, sorted by score, the greatest first, cut at limit.
search_task_history(fs, query, limit, paths) ==
    LET score(tid) == Cardinality({i \in 1..Len(fs.messages[tid]) :
                          ContentMatches(fs.messages[tid][i].content, query)})
        hits == SelectSeq(paths, LAMBDA tid : score(tid) > 0)
    IN Take(SortByScore([i \in 1..Len(hits) |-> <<hits[i], score(hits[i])>>]), limit)

\* ------------------------------------------------------- SqliteStateStorage
\* The methods of the class as they are written; they run on an instance
\* only (see Instantiate).
\* The tables _init_db creates, empty: states by task_id, the rows of
\* messages in the order of their autoincremented id, context by
\* (task_id, key), task_relationships.
SqliteDb0 == [states |-> <<>>, messages |-> <<>>, context |-> <<>>,
              task_relationships |-> {}]

\* INSERT OR REPLACE of a row under its primary key.
InsertOrReplace(table, key, row) ==
    [k \in DOMAIN table \cup {key} |-> IF k = key THEN row ELSE table[k]]

\* datetime.isoformat() and datetime.fromisoformat().
isoformat(dt) == [iso |-> dt.datetime]
fromisoformat(text) == [datetime |-> text.iso]

\* SqliteStateStorage.save_state: the state row is replaced, one row is
\* inserted per message of the snapshot, one row is inserted or replaced
\* per key of its context.
sqlite_save_state(db, tid, st) ==
    LET message_rows == [i \in 1..Len(st.messages) |->
                            [task_id |-> tid, role |-> st.messages[i].role,
                             content |-> st.messages[i].content,
                             timestamp |-> isoformat(st.messages[i].timestamp)]]
        keys == {st.context[i][1] : i \in 1..Len(st.context)}
        value(key) == st.context[CHOOSE i \in 1..Len(st.context) :
                                    st.context[i][1] = key][2]
    IN [db EXCEPT
          !.states = InsertOrReplace(@, tid, json_dump(st)),
          !.messages = @ \o message_rows,
          !.context = [k \in DOMAIN @ \cup {<<tid, key>> : key \in keys} |->
                          IF k[1] = tid /\ k[2] \in keys THEN value(k[2]) ELSE @[k]]]

\* ORDER BY timestamp over rows taken in the order of their ids: among the
\* rows with the least timestamp the first one comes first.
RECURSIVE OrderByTimestamp(_)
OrderByTimestamp(rows) ==
    IF rows = <<>> THEN <<>>
    ELSE LET first == CHOOSE i \in 1..Len(rows) :
                        /\ \A j \in 1..Len(rows) :
                              rows[i].timestamp.iso <= rows[j].timestamp.iso
                        /\ \A j \in 1..(i - 1) :
                              rows[j].timestamp.iso > rows[i].timestamp.iso
         IN <<rows[first]>> \o
            OrderByTimestamp(SubSeq(rows, 1, first - 1)
                             \o SubSeq(rows, first + 1, Len(rows)))

\* A dict built from (key, value) rows, as a sequence of its items.
RECURSIVE ItemsOf(_)
ItemsOf(pairs) ==
    IF pairs = {} THEN <<>>
    ELSE LET p == CHOOSE q \in pairs : TRUE
         IN <<p>> \o ItemsOf(pairs \ {p})

\* SqliteStateStorage.load_state: the state row, with its messages replaced
\* by the task's message rows ordered by timestamp and its context by the
\* task's context rows.
sqlite_load_state(db, tid) ==
    IF tid \notin DOMAIN db.states THEN NoState
    ELSE LET rows == OrderByTimestamp(
                        SelectSeq(db.messages, LAMBDA r : r.task_id = tid))
         IN [json_load(db.states[tid]) EXCEPT
               !.messages = [i \in 1..Len(rows) |->
                               [role |-> rows[i].role, content |-> rows[i].content,
                                timestamp |-> fromisoformat(rows[i].timestamp)]],
               !.context = ItemsOf({<<k[2], db.context[k]>> :
                                     k \in {c \in DOMAIN db.context : c[1] = tid}})]

\* ORDER BY relevance_score DESC over rows taken in the order given.
RECURSIVE OrderByRelevance(_)
OrderByRelevance(rows) ==
    IF rows = <<>> THEN <<>>
    ELSE LET first == CHOOSE i \in 1..Len(rows) :
                        /\ \A j \in 1..Len(rows) :
                              rows[j].relevance_score <= rows[i].relevance_score
                        /\ \A j \in 1..(i - 1) :
                              rows[j].relevance_score < rows[i].relevance_score
         IN <<rows[first]>> \o
            OrderByRelevance(SubSeq(rows, 1, first - 1)
                             \o SubSeq(rows, first + 1, Len(rows)))

\* SqliteStateStorage.get_related_tasks: rows is the order in which the
\* database yields the task_relationships rows of equal relevance_score.
\* The rows of the task ordered by relevance_score, the greatest first, cut
\* at limit; of these, those whose related task has a state row.
sqlite_get_related_tasks(db, tid, limit, rows) ==
    LET selected == Take(OrderByRelevance(
                            SelectSeq(rows, LAMBDA r : r.task_id = tid)), limit)
        found == SelectSeq(selected, LAMBDA r : r.related_task_id \in DOMAIN db.states)
    IN [i \in 1..Len(found) |->
          [task_id |-> found[i].related_task_id,
           task |-> db.states[found[i].related_task_id].task,
           similarity |-> found[i].relevance_score,
           completed |-> db.states[found[i].related_task_id].is_complete]]

\* SQLite's LIKE on ASCII text: case does not count, "%" in the pattern
\* stands for any text and "_" for any one character.
RECURSIVE Like(_, _)
Like(text, pattern) ==
    IF pattern = "" THEN text = ""
    ELSE LET p == SubSeq(pattern, 1, 1)
             rest == SubSeq(pattern, 2, Len(pattern))
         IN IF p = "%"
            THEN \E i \in 0..Len(text) : Like(SubSeq(text, i + 1, Len(text)), rest)
            ELSE /\ text # ""
                 /\ p = "_" \/ LowerChar(p) = LowerChar(SubSeq(text, 1, 1))
                 /\ Like(SubSeq(text, 2, Len(text)), rest)

\* storage/__init__.py:484-489  m.content LIKE f"%{query}%"
ContentLike(content, query) == Like(content, "%" \o query \o "%")

\* SqliteStateStorage.search_task_history: groups is the order in which the
\* database yields the task ids of equal count.  The (task_id, COUNT(*))
\* rows of the tasks with a matching message row, ordered by the count, the
\* greatest first, cut at limit.
sqlite_search_task_history(db, query, limit, groups) ==
    LET count(tid) == Cardinality({i \in 1..Len(db.messages) :
                            /\ db.messages[i].task_id = tid
                            /\ ContentLike(db.messages[i].content, query)})
        hits == SelectSeq(groups, LAMBDA tid : count(tid) > 0)
    IN Take(SortByScore([i \in 1..Len(hits) |-> <<hits[i], count(hits[i])>>]), limit)

\* ------------------------------------------------------------- DebugSession
\* DebugSession() as constructed by Agent.__init__.
\* breakpoints is the sequence of the dict's values and names the sequence
\* of its keys, both in insertion order.
DebugSession0 ==
    [active |-> FALSE, step_by_step |-> FALSE, breakpoints |-> <<>>, names |-> <<>>]

\* The keys under which breakpoints are held.
BreakpointNames == <<"bp0", "bp1", "bp2", "bp3">>

\* DebugSession.start (start_time is not modelled)
start(session) == [session EXCEPT !.active = TRUE]

\* DebugSession.stop
stop(session) == [session EXCEPT !.active = FALSE]

\* The position of key name in the dict.
KeyIndex(session, name) ==
    CHOOSE i \in 1..Len(session.names) : session.names[i] = name

\* DebugSession.add_breakpoint: self.breakpoints[name] = Breakpoint(...)
\* replaces the value of a key that is there and adds a new key at the end.
add_breakpoint(session, name, bp_config) ==
    IF \E i \in 1..Len(session.names) : session.names[i] = name
    THEN [session EXCEPT !.breakpoints[KeyIndex(session, name)] = bp_config]
    ELSE [session EXCEPT !.breakpoints = Append(@, bp_config),
                         !.names = Append(@, name)]

\* DebugSession.remove_breakpoint: del self.breakpoints[name] if the key is
\* there.
remove_breakpoint(session, name) ==
    IF \E i \in 1..Len(session.names) : session.names[i] = name
    THEN LET k == KeyIndex(session, name)
         IN [session EXCEPT
               !.breakpoints = SubSeq(@, 1, k - 1) \o SubSeq(@, k + 1, Len(@)),
               !.names = SubSeq(@, 1, k - 1) \o SubSeq(@, k + 1, Len(@))]
    ELSE session

\* A breakpoint is [type, condition, enabled] with condition one of "none"
\* (None), "" (the empty string), "true", "false" (what eval of the
\* expression returns) and "error" (eval raises an Exception).
\* The test "if bp.condition": None and the empty string are falsy.
HasCondition(condition) == condition \notin {"none", ""}

\* The loop over the breakpoints in which an invalid condition ends the
\* search instead of being skipped.
RECURSIVE ScanBreakpointsStoppingAtError(_, _)
ScanBreakpointsStoppingAtError(bps, bp_type) ==
    IF bps = <<>> THEN FALSE
    ELSE LET bp == Head(bps)
         IN IF ~bp.enabled \/ bp.type # bp_type
            THEN ScanBreakpointsStoppingAtError(Tail(bps), bp_type)
            ELSE IF HasCondition(bp.condition)
            THEN IF bp.condition = "error" THEN FALSE
                 ELSE IF bp.condition = "true" THEN TRUE
                 ELSE ScanBreakpointsStoppingAtError(Tail(bps), bp_type)
            ELSE TRUE

\* DebugSession.should_break, lines 67-82: the loop over the breakpoints.
RECURSIVE ScanBreakpoints(_, _)
ScanBreakpoints(bps, bp_type) ==
    IF bps = <<>> THEN FALSE
    ELSE LET bp == Head(bps)
         IN IF ~bp.enabled \/ bp.type # bp_type
            THEN ScanBreakpoints(Tail(bps), bp_type)
            ELSE IF HasCondition(bp.condition)
            THEN IF bp.condition = "error"
                 THEN ScanBreakpoints(Tail(bps), bp_type)
                 ELSE IF bp.condition = "true" THEN TRUE
                 ELSE ScanBreakpoints(Tail(bps), bp_type)
            ELSE TRUE

\* DebugSession.should_break
should_break(session, bp_type) ==
    IF ~session.active THEN FALSE
    ELSE IF session.step_by_step THEN TRUE
    ELSE ScanBreakpoints(session.breakpoints, bp_type)

\* ------------------------------------------------------------------- Agent
VARIABLES
    config,          \* AgentConfig: the fields the engine reads
    env,             \* the environment of the run: how many execute_task calls
                     \* are made, and the call by which the oracle completes
    task_id,         \* Agent.task_id
    next_uuid,       \* the next value uuid.uuid4() returns
    checkpoint_count,\* Agent.checkpoint_count
    state,           \* Agent.state, the TaskState
    storage,         \* Agent.storage, the JsonStateStorage directory
    debug_session,   \* Agent.debug_session
    debug_callback,  \* Agent.debug_callback is set (TRUE) or None (FALSE)
    pc,              \* the position of execute_task
    iteration,       \* execute_task's local iteration
    action,          \* execute_task's local action, the oracle's last answer
    outcome,         \* how the last execute_task call ended
    events,          \* the calls made to collaborators in this iteration
    llm_calls,       \* the number of get_next_action calls of this task
    rejections,      \* the number of get_approval calls of this task that
                     \* returned False
    auto_run,        \* the number of tools of this task executed in a row
                     \* without a get_approval call for them
    clock            \* datetime.utcnow(), a logical clock

agent_vars == <<config, env, task_id, next_uuid, checkpoint_count, state,
                storage, debug_session, debug_callback, pc, iteration, action,
                outcome, events, llm_calls, rejections, auto_run, clock>>

\* One RateLimiter shared by the callers of acquire().
VARIABLES
    rl_rpm,          \* RateLimiter.rpm
    rl_requests,     \* RateLimiter.requests, the registered timestamps
    rl_locked,       \* RateLimiter.lock is held (asyncio.Lock._locked)
    rl_waiters,      \* the lock's FIFO queue of waiting callers
    rl_now,          \* time.time(), in seconds
    rl_pc,           \* per caller: "idle", "sleep" or "wait_lock"
    rl_wake,         \* per caller: the time its asyncio.sleep ends
    rl_frames,       \* per caller: the suspended acquire() frames below the
                     \* running one, each inside its "async with self.lock"
    rl_acquired,     \* the number of acquire() calls that have returned
    rl_answer,       \* the last reader called and the number it returned
    rl_sent          \* the times at which the OpenAI adapter sent a request

rl_vars == <<rl_rpm, rl_requests, rl_locked, rl_waiters, rl_now, rl_pc,
             rl_wake, rl_frames, rl_acquired, rl_answer, rl_sent>>

\* The two storage backends, given the same calls.
VARIABLES
    st_fs,           \* the directory of a JsonStateStorage
    st_db,           \* what SqliteStateStorage(db_path) gave: the database
                     \* of the store, or the exception raised
    st_clock,        \* datetime.utcnow() of the store's calls
    st_ops,          \* the number of calls made
    st_last,         \* the last call, with what it returned or raised
    st_created,      \* the Checkpoint objects create_checkpoint returned,
                     \* in the order of the calls
    st_saved         \* per task id, the snapshot last given to save_state

store_vars == <<st_fs, st_db, st_clock, st_ops, st_last, st_created, st_saved>>

vars == <<agent_vars, rl_vars, store_vars>>

NoAction == [tool_name |-> NoText, tool_args |-> NoText, is_complete |-> FALSE,
             result |-> NoText, thoughts |-> NoText]
NoOutcome == [kind |-> "none", value |-> NoText]

\* The configurations explored: approval policy (max_consecutive_auto_approvals
\* is read only with auto_approve_tools), checkpoint policy (max_checkpoints
\* is read only with auto_checkpoint), debug settings.
ApprovalConfigs ==
    {[auto_approve_tools |-> FALSE, max_consecutive_auto_approvals |-> MaxAutoBound]}
    \cup {[auto_approve_tools |-> TRUE, max_consecutive_auto_approvals |-> m] :
            m \in 0..MaxAutoBound}
CheckpointConfigs ==
    {[auto_checkpoint |-> FALSE, max_checkpoints |-> MaxCkptBound]}
    \cup {[auto_checkpoint |-> TRUE, max_checkpoints |-> n] : n \in 0..MaxCkptBound}
DebugConfigs ==
    {[enabled |-> FALSE, step_by_step |-> FALSE, breakpoints |-> <<>>],
     [enabled |-> TRUE, step_by_step |-> FALSE,
      breakpoints |-> <<[type |-> "tool", condition |-> "none", enabled |-> TRUE],
                        [type |-> "state", condition |-> "none", enabled |-> TRUE]>>],
     [enabled |-> TRUE, step_by_step |-> TRUE, breakpoints |-> <<>>]}
Configs ==
    {[auto_approve_tools |-> ap.auto_approve_tools,
      max_consecutive_auto_approvals |-> ap.max_consecutive_auto_approvals,
      auto_checkpoint |-> ck.auto_checkpoint,
      max_checkpoints |-> ck.max_checkpoints,
      debug |-> db] :
        ap \in ApprovalConfigs, ck \in CheckpointConfigs, db \in DebugConfigs}

\* AgentConfig.enable_debug(step_by_step, breakpoints): debugging is
\* enabled in the configuration, step_by_step is set, and the breakpoints
\* are replaced when some are given.  An engine built from the
\* configuration reads the same object.
enable_debug(cfg, step_by_step, breakpoints) ==
    [cfg EXCEPT !.debug =
        [enabled |-> TRUE, step_by_step |-> step_by_step,
         breakpoints |-> IF breakpoints # <<>> THEN breakpoints
                         ELSE cfg.debug.breakpoints]]

\* Agent._initialize_components: the debug session of a new engine.
RECURSIVE AddBreakpoints(_, _, _)
AddBreakpoints(session, bp_configs, k) ==
    IF k > Len(bp_configs) THEN session
    ELSE AddBreakpoints(add_breakpoint(session, BreakpointNames[k], bp_configs[k]),
                        bp_configs, k + 1)
InitialDebugSession(cfg) ==
    IF cfg.debug.enabled
    THEN AddBreakpoints([start(DebugSession0) EXCEPT
                            !.step_by_step = cfg.debug.step_by_step],
                        cfg.debug.breakpoints, 1)
    ELSE DebugSession0

\* Agent.__init__
AgentInit(cfg) ==
    /\ config = cfg
    /\ task_id = <<1>>
    /\ next_uuid = 2
    /\ checkpoint_count = 0
    /\ state = TaskState0
    /\ storage = Storage0
    /\ debug_session = InitialDebugSession(cfg)
    /\ debug_callback = FALSE
    /\ pc = "idle"
    /\ iteration = 0
    /\ action = NoAction
    /\ outcome = NoOutcome
    /\ events = <<>>
    /\ llm_calls = 0
    /\ rejections = 0
    /\ auto_run = 0
    /\ clock = 0

\* The oracle's answers at a given iteration (LLMAction): a completion
\* (with or without a result, without thoughts, naming a tool as well, with
\* or without thoughts),
\* a tool request, or neither.
OracleActions(it) ==
    {[tool_name |-> NoText, tool_args |-> NoText, is_complete |-> TRUE,
      result |-> "R1", thoughts |-> "th"],
     [tool_name |-> NoText, tool_args |-> NoText, is_complete |-> TRUE,
      result |-> "R1", thoughts |-> NoText],
     [tool_name |-> NoText, tool_args |-> NoText, is_complete |-> TRUE,
      result |-> NoText, thoughts |-> "th"],
     [tool_name |-> "ghost", tool_args |-> "x=1", is_complete |-> TRUE,
      result |-> "R1", thoughts |-> "th"],
     [tool_name |-> "ghost", tool_args |-> "x=1", is_complete |-> TRUE,
      result |-> "R1", thoughts |-> NoText]}
    \cup (IF it < env.horizon
          THEN {[tool_name |-> NoText, tool_args |-> NoText,
                 is_complete |-> FALSE, result |-> NoText, thoughts |-> "th"]}
          ELSE {})
    \cup (IF it < env.horizon /\ (it <= MaxToolIter \/ it = max_iterations)
          THEN {[tool_name |-> t, tool_args |-> "x=1", is_complete |-> FALSE,
                 result |-> NoText, thoughts |-> "th"] : t \in ToolNames}
          ELSE {})

\* -------------------------------------------------------------- RateLimiter
\* The callers sharing the limiter are 1..NumCallers.
NumCallers == 2
\* Configured rpm ranges over 1..MaxRpm.
MaxRpm == 2
\* The clock advances in steps of TickSize seconds, up to MaxTime.
TickSize == 20
MaxTime == 140
\* rate_limiter.py:66  window_start = now - 60
RLWindow == 60

Callers == 1..NumCallers

\* No reader has been called.
NoAnswer == [call |-> "none", value |-> 0]

\* RateLimiter.__init__, with no caller inside acquire().
RLInit(rpm) ==
    /\ rl_rpm = rpm
    /\ rl_requests = <<>>
    /\ rl_locked = FALSE
    /\ rl_waiters = <<>>
    /\ rl_now = 0
    /\ rl_pc = [c \in Callers |-> "idle"]
    /\ rl_wake = [c \in Callers |-> 0]
    /\ rl_frames = [c \in Callers |-> 0]
    /\ rl_acquired = 0
    /\ rl_answer = NoAnswer
    /\ rl_sent = <<>>

\* Lines 70-72: pop the head while it is not newer than window_start.
RECURSIVE RemoveExpired(_, _)
RemoveExpired(requests, window_start) ==
    IF requests # <<>> /\ requests[1] <= window_start
    THEN RemoveExpired(Tail(requests), window_start)
    ELSE requests

\* The rate limit test with a strict comparison.
AtRateLimitStrict(requests) == Len(requests) > rl_rpm

\* Line 81: the limiter is at its rate limit.
AtRateLimit(requests) == Len(requests) >= rl_rpm

\* Line 82: the time until the oldest request leaves the window.
WaitTime(requests, now) == requests[1] - (now - RLWindow)

\* Lines 65-101, run by caller c once it holds the lock, without
\* suspension up to the sleep or the return: at the rate limit the caller
\* sleeps still holding the lock; otherwise the timestamp is registered,
\* the lock released and acquire() returns to the caller, through every
\* suspended frame.
CheckAndRegister(c) ==
    LET now == rl_now
        remaining == RemoveExpired(rl_requests, now - RLWindow)
    IN IF AtRateLimit(remaining)
       THEN /\ rl_requests' = remaining
            /\ rl_locked' = TRUE
            /\ rl_pc' = [rl_pc EXCEPT ![c] = "sleep"]
            /\ rl_wake' = [rl_wake EXCEPT ![c] = now + WaitTime(remaining, now)]
            /\ UNCHANGED <<rl_frames, rl_acquired>>
       ELSE /\ rl_requests' = Append(remaining, now)
            /\ rl_locked' = FALSE
            /\ rl_pc' = [rl_pc EXCEPT ![c] = "idle"]
            /\ rl_frames' = [rl_frames EXCEPT ![c] = 0]
            /\ rl_acquired' = rl_acquired + 1
            /\ UNCHANGED rl_wake

\* asyncio.Lock.acquire returns at once: the lock is free and nobody waits.
LockIsFree == ~rl_locked /\ rl_waiters = <<>>

\* A caller calls acquire() (line 53) and enters "async with self.lock"
\* (line 64): with the lock free it runs the check at once, otherwise it
\* joins the lock's queue.
CallAcquire(c) ==
    /\ rl_pc[c] = "idle"
    /\ rl_now <= MaxTime - RLWindow
    /\ IF LockIsFree
       THEN /\ CheckAndRegister(c)
            /\ UNCHANGED rl_waiters
       ELSE /\ rl_waiters' = Append(rl_waiters, c)
            /\ rl_pc' = [rl_pc EXCEPT ![c] = "wait_lock"]
            /\ UNCHANGED <<rl_requests, rl_locked, rl_wake, rl_frames, rl_acquired>>
    /\ UNCHANGED <<agent_vars, store_vars, rl_rpm, rl_now, rl_answer, rl_sent>>

\* The event loop can resume caller c: its sleep has ended, or the lock was
\* released and c is the first in its queue.
CanResume(c) ==
    \/ rl_pc[c] = "sleep" /\ rl_now >= rl_wake[c]
    \/ rl_pc[c] = "wait_lock" /\ ~rl_locked /\ rl_waiters # <<>> /\ Head(rl_waiters) = c

\* The event loop resumes caller c.  After the sleep (line 91) the caller
\* calls acquire() again (line 93) from inside its "async with self.lock",
\* so the frame that slept stays suspended holding the lock and the new call
\* joins the lock's queue.  A caller that was given the lock runs the check.
Resume(c) ==
    /\ CanResume(c)
    /\ IF rl_pc[c] = "sleep"
       THEN /\ rl_frames' = [rl_frames EXCEPT ![c] = @ + 1]
            /\ rl_waiters' = Append(rl_waiters, c)
            /\ rl_pc' = [rl_pc EXCEPT ![c] = "wait_lock"]
            /\ UNCHANGED <<rl_requests, rl_locked, rl_wake, rl_acquired>>
       ELSE /\ rl_waiters' = Tail(rl_waiters)
            /\ CheckAndRegister(c)
    /\ UNCHANGED <<agent_vars, store_vars, rl_rpm, rl_now, rl_answer, rl_sent>>

\* Time passes.
Tick ==
    /\ rl_now + TickSize <= MaxTime
    /\ rl_now' = rl_now + TickSize
    /\ UNCHANGED <<agent_vars, store_vars, rl_rpm, rl_requests, rl_locked, rl_waiters,
                   rl_pc, rl_wake, rl_frames, rl_acquired, rl_answer, rl_sent>>

\* A count that includes the timestamp lying exactly on window_start.
get_current_rpm_inclusive(requests, now) ==
    Cardinality({i \in 1..Len(requests) : requests[i] >= now - RLWindow})

\* Lines 103-107: the number of registered timestamps newer than window_start.
get_current_rpm(requests, now) ==
    Cardinality({i \in 1..Len(requests) : requests[i] > now - RLWindow})

\* Lines 109-116: 0 below the limit, otherwise the time until the oldest
\* registered timestamp leaves the window, never negative.
get_wait_time(requests, rpm, now) ==
    IF Len(requests) < rpm
    THEN 0
    ELSE LET wait == requests[1] - (now - RLWindow)
         IN IF wait > 0 THEN wait ELSE 0

\* A caller reads get_current_rpm(); the answer is kept in rl_answer.
CallGetCurrentRpm ==
    /\ rl_answer' = [call |-> "get_current_rpm",
                     value |-> get_current_rpm(rl_requests, rl_now)]
    /\ UNCHANGED <<agent_vars, store_vars, rl_rpm, rl_requests, rl_locked, rl_waiters,
                   rl_now, rl_pc, rl_wake, rl_frames, rl_acquired, rl_sent>>

\* A caller reads get_wait_time(); the answer is kept in rl_answer.
CallGetWaitTime ==
    /\ rl_answer' = [call |-> "get_wait_time",
                     value |-> get_wait_time(rl_requests, rl_rpm, rl_now)]
    /\ UNCHANGED <<agent_vars, store_vars, rl_rpm, rl_requests, rl_locked, rl_waiters,
                   rl_now, rl_pc, rl_wake, rl_frames, rl_acquired, rl_sent>>

\* ---------------------------------------------------------- OpenAIProvider
\* What the chat completion call of get_next_action produces: an exception
\* (kind "api_error", text its message), a text that is not JSON
\* ("not_json", the text), JSON that LLMAction(**data) rejects ("bad_fields",
\* text the validation message), or JSON data ("json"): the keys present and
\* their values.
\* text * n
RECURSIVE Repeat(_, _)
Repeat(text, n) ==
    IF n = 0 THEN ""
    ELSE LET half == Repeat(text, n \div 2)
         IN half \o half \o (IF n % 2 = 1 THEN text ELSE "")

\* openai.py:290  response[:200]
RawResponseLimit == 200

ApiFailures ==
    {[kind |-> "api_error", text |-> "boom"],
     [kind |-> "not_json", text |-> "hi"],
     [kind |-> "not_json", text |-> Repeat("h", RawResponseLimit + 1)],
     [kind |-> "bad_fields", text |-> "boom"]}

\* A JSON answer: the keys of the object and the value of each (NoText for
\* a key that is absent or null).
JsonAnswer(keys, thoughts, tool_name, tool_args, is_complete, result) ==
    [kind |-> "json", keys |-> keys, thoughts |-> thoughts,
     tool_name |-> tool_name, tool_args |-> tool_args,
     is_complete |-> is_complete, result |-> result]

\* The JSON answers at a given iteration: completions in the format of the
\* prompt, with null thoughts, and with the is_complete key alone; in the
\* iterations in which the oracle names tools, a tool request in the format
\* of the prompt for each tool name.
ApiAnswers(it) ==
    {JsonAnswer({"thoughts", "is_complete", "result"}, "th", NoText, NoText, TRUE, "R1"),
     JsonAnswer({"thoughts", "is_complete", "result"}, NoText, NoText, NoText, TRUE, "R1"),
     JsonAnswer({"is_complete"}, NoText, NoText, NoText, TRUE, NoText)}
    \cup (IF it <= MaxToolIter \/ it = max_iterations
          THEN {JsonAnswer({"thoughts", "tool_name", "tool_args", "is_complete"},
                           "th", t, "x=1", FALSE, NoText) : t \in ToolNames}
          ELSE {})

\* LLMAction(thoughts=..., is_complete=False): the other fields take their
\* defaults.
ErrorAction(thoughts) ==
    [tool_name |-> NoText, tool_args |-> NoText, is_complete |-> FALSE,
     result |-> NoText, thoughts |-> thoughts]

\* OpenAIProvider.parse_response: text that is not JSON is quoted up to
\* its first 200 characters; of JSON data the thoughts and is_complete keys
\* are filled in when absent and LLMAction(**data) takes every field from
\* the data, the absent ones by default.
parse_response(response) ==
    IF response.kind = "not_json"
    THEN ErrorAction("Failed to parse response as JSON. Raw response: "
                     \o Take(response.text, RawResponseLimit) \o "...")
    ELSE IF response.kind = "bad_fields"
    THEN ErrorAction("Error parsing response: " \o response.text)
    ELSE [tool_name |-> IF "tool_name" \in response.keys
                        THEN response.tool_name ELSE NoText,
          tool_args |-> IF "tool_args" \in response.keys
                        THEN response.tool_args ELSE NoText,
          is_complete |-> IF "is_complete" \in response.keys
                          THEN response.is_complete ELSE FALSE,
          result |-> IF "result" \in response.keys THEN response.result ELSE NoText,
          thoughts |-> IF "thoughts" \in response.keys THEN response.thoughts
                       ELSE "No thoughts provided"]

\* get_next_action whose except block returns an action without thoughts.
get_next_action_without_thoughts(response) ==
    IF response.kind = "api_error"
    THEN ErrorAction(NoText)
    ELSE parse_response(response)

\* OpenAIProvider.get_next_action, lines 112-145: the call, parse_response,
\* and the except block.
get_next_action(response) ==
    IF response.kind = "api_error"
    THEN ErrorAction("Error in OpenAI API call: " \o response.text)
    ELSE parse_response(response)

\* A caller has come out of acquire() (openai.py:114) and has not yet made
\* its chat completion call (116).  No coroutine is suspended between the
\* two, so nothing else runs meanwhile.
RequestPending == Len(rl_sent) < rl_acquired

\* config.py:34  rate_limit: int = 60
rate_limit == 60

\* The engine is the caller Engine of its provider's RateLimiter.
Engine == 1

\* Agent.llm is an OpenAIProvider (the environments that say so), or some
\* other implementation of BaseLLMProvider.
BehindOpenAI == IF "openai" \in DOMAIN env THEN env.openai ELSE FALSE

\* openai.py:114-120 in a get_next_action call that goes through: acquire()
\* finds the lock free and the limiter below its rate limit, registers the
\* timestamp and returns (or has returned, after a suspension), and the chat
\* completion request is sent.
ProviderCall ==
    /\ rl_pc[Engine] = "idle"
    /\ IF RequestPending
       THEN UNCHANGED <<rl_requests, rl_locked, rl_pc, rl_wake, rl_frames,
                        rl_acquired>>
       ELSE /\ LockIsFree
            /\ rl_now <= MaxTime - RLWindow
            /\ ~AtRateLimit(RemoveExpired(rl_requests, rl_now - RLWindow))
            /\ CheckAndRegister(Engine)
    /\ rl_sent' = Append(rl_sent, rl_now)
    /\ UNCHANGED <<rl_rpm, rl_waiters, rl_now, rl_answer>>

\* The limiter's part in a step in which the oracle answers (agent.py:172):
\* behind the OpenAI adapter the call goes through the RateLimiter.
OracleCall == IF BehindOpenAI THEN ProviderCall ELSE UNCHANGED rl_vars

\* openai.py:114 in a get_next_action call made at the rate limit: acquire()
\* suspends the engine, asleep inside the lock.
OracleCallSuspends ==
    /\ pc = "llm"
    /\ BehindOpenAI
    /\ ~RequestPending
    /\ AtRateLimit(RemoveExpired(rl_requests, rl_now - RLWindow))
    /\ CallAcquire(Engine)

\* The event loop resumes the engine inside acquire().
OracleCallResumes == BehindOpenAI /\ Resume(Engine)

\* Time passes before an oracle call that finds the limiter's list full, and
\* while the engine is inside acquire().
OracleTick ==
    /\ BehindOpenAI
    /\ \/ pc = "llm" /\ AtRateLimit(rl_requests)
       \/ rl_pc[Engine] # "idle"
    /\ Tick

\* ToolResult.success of a tool execution.
ToolResults == {"ok", "failed"}

\* A save_message that adds the message and does not persist.
save_message_in_memory_only(role, content, s, fs, tid) ==
    <<add_message(s, role, content, clock), fs>>

\* Agent.save_message on an engine with TaskState s, storage fs and task id
\* tid: add the message, then persist the state under the engine's id;
\* <<state, storage>> after the call.
save_message(role, content, s, fs, tid) ==
    LET s1 == add_message(s, role, content, clock)
    IN <<s1, save_state(fs, tid, s1)>>

\* Agent.save_user_input
save_user_input(content, s, fs, tid) ==
    LET s1 == add_user_input(s, content, clock)
    IN <<s1, save_state(fs, tid, s1)>>

\* Agent.update_context
Agent_update_context(updates, s, fs, tid) ==
    LET s1 == update_context(s, updates)
    IN <<s1, save_state(fs, tid, s1)>>

\* Agent._handle_debug_break: the callbacks invoked at a breakpoint check.
handle_debug_break(bp_type) ==
    IF ~config.debug.enabled \/ ~debug_callback THEN <<>>
    ELSE IF should_break(debug_session, bp_type)
         THEN <<"on_break:" \o bp_type>>
              \o (IF debug_session.step_by_step THEN <<"on_step:" \o bp_type>> ELSE <<>>)
         ELSE <<>>

\* A finally block that stops the debug session but does not persist.
FinallyWithoutSave(fs, final_state) ==
    /\ storage' = fs
    /\ debug_session' = IF debug_session.active
                        THEN [debug_session EXCEPT !.active = FALSE]
                        ELSE debug_session
    /\ debug_callback' = IF debug_session.active THEN FALSE ELSE debug_callback

\* The finally block of execute_task, reached with storage fs and TaskState
\* final_state: persist the final state, stop the debug session if it is
\* active.
Finally(fs, final_state) ==
    /\ storage' = save_state(fs, task_id, final_state)
    /\ debug_session' = IF debug_session.active
                        THEN [debug_session EXCEPT !.active = FALSE]
                        ELSE debug_session
    /\ debug_callback' = IF debug_session.active THEN FALSE ELSE debug_callback

\* The except block of execute_task followed by the finally block, for an
\* exception with message msg raised with storage fs and TaskState s:
\* mark_failed(str(e)), re-raise.
ExceptThenFinally(fs, s, msg) ==
    /\ state' = mark_failed(s, msg, clock)
    /\ Finally(fs, mark_failed(s, msg, clock))
    /\ outcome' = [kind |-> "raise", value |-> msg]
    /\ pc' = "idle"

\* Agent.llm is set (line 131).  The environments that say nothing about it
\* are those of an engine whose _initialize_components has set it.
LLMInitialized == IF "llm" \in DOMAIN env THEN env.llm ELSE TRUE

\* An execute_task that tests self.llm only after it has started the task.
ExecuteTaskTestingLLMLate(task, cb) ==
    /\ pc = "idle"
    /\ ~LLMInitialized
    /\ task_id' = <<next_uuid>>
    /\ next_uuid' = next_uuid + 1
    /\ state' = start_new_task(state, task, <<next_uuid>>)
    /\ outcome' = [kind |-> "raise", value |-> "LLM provider not initialized"]
    /\ UNCHANGED <<rl_vars, store_vars, config, env, checkpoint_count, storage,
                   debug_session, debug_callback, pc, iteration, action, events,
                   llm_calls, rejections, auto_run, clock>>

\* Agent.execute_task, lines 131-132: without an llm the call raises
\* RuntimeError before anything is assigned; neither the except nor the
\* finally block of the task loop is entered.
ExecuteTaskWithoutLLM(task, cb) ==
    /\ pc = "idle"
    /\ ~LLMInitialized
    /\ outcome' = [kind |-> "raise", value |-> "LLM provider not initialized"]
    /\ UNCHANGED <<rl_vars, store_vars, config, env, task_id, next_uuid, checkpoint_count,
                   state, storage, debug_session, debug_callback, pc, iteration,
                   action, events, llm_calls, rejections, auto_run, clock>>

\* Agent.execute_task, lines 131-158: a new task id, start_new_task, the
\* initial system message, the related tasks (get_related_tasks with its
\* default limit, the glob yielding the state files in some order), and
\* entry into the loop.
ExecuteTask(task, cb) ==
    /\ pc = "idle"
    /\ LLMInitialized
    /\ next_uuid - 2 < env.run_limit
    /\ LET tid == <<next_uuid>>
           started == save_message("system", "Starting task: " \o task,
                                   start_new_task(state, task, tid), storage, tid)
       IN \E paths \in Orderings(DOMAIN started[2].states) :
          LET related_tasks == get_related_tasks(started[2], tid, related_limit, paths)
              updated == IF related_tasks # <<>>
                         THEN Agent_update_context(
                                  <<<<"related_tasks", related_tasks>>>>,
                                  started[1], started[2], tid)
                         ELSE started
          IN /\ task_id' = tid
             /\ next_uuid' = next_uuid + 1
             /\ state' = updated[1]
             /\ storage' = updated[2]
    /\ debug_callback' = cb
    /\ iteration' = 0
    /\ action' = NoAction
    /\ outcome' = NoOutcome
    /\ events' = <<>>
    /\ llm_calls' = 0
    /\ rejections' = 0
    /\ auto_run' = 0
    /\ pc' = "loop"
    /\ UNCHANGED <<rl_vars, store_vars, config, env, checkpoint_count, debug_session, clock>>

\* The loop condition with the bound off by one.
LoopContinuesOffByOne == ~state.is_complete /\ iteration <= max_iterations

\* The while condition of execute_task, line 160.
LoopContinues == ~state.is_complete /\ iteration < max_iterations

\* Lines 160-161: the loop condition holds, a new iteration starts.
LoopIterate ==
    /\ pc = "loop"
    /\ LoopContinues
    /\ iteration' = iteration + 1
    /\ events' = <<>>
    /\ pc' = "bp_llm"
    /\ UNCHANGED <<rl_vars, store_vars, config, env, task_id, next_uuid, checkpoint_count, state,
                   storage, debug_session, debug_callback, action, outcome,
                   llm_calls, clock, rejections, auto_run>>

\* Lines 260-262 and the handlers: the loop has ended.  At the iteration
\* limit the state is marked failed and RuntimeError is raised, which the
\* except block catches (mark_failed(str(e))) and re-raises.
LoopExit ==
    /\ pc = "loop"
    /\ ~LoopContinues
    /\ IF iteration >= max_iterations
       THEN ExceptThenFinally(storage,
                              mark_failed(state, "Maximum iterations reached", clock),
                              IterationLimitMsg)
       ELSE /\ Finally(storage, state)
            /\ outcome' = [kind |-> "return", value |-> NoText]
            /\ pc' = "idle"
            /\ UNCHANGED state
    /\ UNCHANGED <<rl_vars, store_vars, config, env, task_id, next_uuid, checkpoint_count, iteration,
                   action, events, llm_calls, clock, rejections, auto_run>>

\* Line 169: the breakpoint check before the oracle call.
BreakLLM ==
    /\ pc = "bp_llm"
    /\ events' = events \o handle_debug_break("llm")
    /\ pc' = "llm"
    /\ UNCHANGED <<rl_vars, store_vars, config, env, task_id, next_uuid, checkpoint_count, state,
                   storage, debug_session, debug_callback, iteration, action,
                   outcome, llm_calls, clock, rejections, auto_run>>

\* Message(content=None) is rejected by the model's validation (content: str).
MessageInvalid(content) == content = NoText

\* Lines 172-177: the oracle answers with action a and the assistant's
\* thoughts are stored; <<state, storage>> after save_message.
ThoughtsSaved(a) ==
    save_message("assistant", a.thoughts, state, storage, task_id)

\* Lines 172-177 when the thoughts are absent: add_message raises.
OracleAnswerInvalid(a) ==
    /\ pc = "llm"
    /\ MessageInvalid(a.thoughts)
    /\ action' = a
    /\ llm_calls' = llm_calls + 1
    /\ events' = Append(events, "get_next_action")
    /\ ExceptThenFinally(storage, state, "validation error: content")
    /\ OracleCall
    /\ UNCHANGED <<store_vars, config, env, task_id, next_uuid, checkpoint_count,
                   iteration, clock, rejections, auto_run>>

\* The completion branch without its return statement: control goes back to
\* the head of the loop.
CompleteWithoutReturn(a) ==
    /\ pc = "llm"
    /\ ~MessageInvalid(a.thoughts)
    /\ a.is_complete
    /\ action' = a
    /\ llm_calls' = llm_calls + 1
    /\ events' = Append(events, "get_next_action")
    /\ LET saved == save_message("system", "Task completed: " \o str(a.result),
                                 mark_complete(ThoughtsSaved(a)[1], clock),
                                 ThoughtsSaved(a)[2], task_id)
       IN /\ state' = saved[1]
          /\ storage' = saved[2]
    /\ pc' = "loop"
    /\ OracleCall
    /\ UNCHANGED <<store_vars, config, env, task_id, next_uuid, checkpoint_count,
                   debug_session, debug_callback, outcome, iteration, clock,
                   rejections, auto_run>>

\* Lines 172-199: the oracle's action completes the task.
Complete(a) ==
    /\ pc = "llm"
    /\ ~MessageInvalid(a.thoughts)
    /\ a.is_complete
    /\ action' = a
    /\ llm_calls' = llm_calls + 1
    /\ events' = Append(events, "get_next_action")
    /\ LET saved == save_message("system", "Task completed: " \o str(a.result),
                                 mark_complete(ThoughtsSaved(a)[1], clock),
                                 ThoughtsSaved(a)[2], task_id)
       IN /\ state' = saved[1]
          /\ Finally(saved[2], saved[1])
    /\ outcome' = [kind |-> "return",
                   value |-> IF a.result # NoText THEN a.result ELSE a.thoughts]
    /\ pc' = "idle"
    /\ OracleCall
    /\ UNCHANGED <<store_vars, config, env, task_id, next_uuid, checkpoint_count,
                   iteration, clock, rejections, auto_run>>

\* Lines 172-202 when the action neither completes nor names a tool: the
\* iteration ends.
NoTool(a) ==
    /\ pc = "llm"
    /\ ~MessageInvalid(a.thoughts)
    /\ ~a.is_complete
    /\ a.tool_name = NoText
    /\ action' = a
    /\ llm_calls' = llm_calls + 1
    /\ events' = Append(events, "get_next_action")
    /\ state' = ThoughtsSaved(a)[1]
    /\ storage' = ThoughtsSaved(a)[2]
    /\ pc' = "loop"
    /\ OracleCall
    /\ UNCHANGED <<store_vars, config, env, task_id, next_uuid, checkpoint_count,
                   debug_session, debug_callback, iteration, outcome, clock,
                   rejections, auto_run>>

\* The tool lookup made after the breakpoint check instead of before it.
ResolveToolAfterBreak(a) ==
    /\ pc = "llm"
    /\ ~MessageInvalid(a.thoughts)
    /\ ~a.is_complete
    /\ a.tool_name # NoText
    /\ action' = a
    /\ llm_calls' = llm_calls + 1
    /\ IF a.tool_name \in RegisteredTools
       THEN /\ events' = Append(events, "get_next_action")
            /\ state' = ThoughtsSaved(a)[1]
            /\ storage' = ThoughtsSaved(a)[2]
            /\ pc' = "bp_tool"
            /\ UNCHANGED <<debug_session, debug_callback, outcome>>
       ELSE /\ events' = Append(events, "get_next_action")
                         \o handle_debug_break("tool")
            /\ ExceptThenFinally(ThoughtsSaved(a)[2], ThoughtsSaved(a)[1],
                                 "Unknown tool: " \o a.tool_name)
    /\ OracleCall
    /\ UNCHANGED <<store_vars, config, env, task_id, next_uuid, checkpoint_count,
                   iteration, clock, rejections, auto_run>>

\* Lines 172-205 when the action names a tool: the tool is looked up; an
\* unknown name raises ValueError.
ResolveTool(a) ==
    /\ pc = "llm"
    /\ ~MessageInvalid(a.thoughts)
    /\ ~a.is_complete
    /\ a.tool_name # NoText
    /\ action' = a
    /\ llm_calls' = llm_calls + 1
    /\ events' = Append(events, "get_next_action")
    /\ IF a.tool_name \in RegisteredTools
       THEN /\ state' = ThoughtsSaved(a)[1]
            /\ storage' = ThoughtsSaved(a)[2]
            /\ pc' = "bp_tool"
            /\ UNCHANGED <<debug_session, debug_callback, outcome>>
       ELSE ExceptThenFinally(ThoughtsSaved(a)[2], ThoughtsSaved(a)[1],
                              "Unknown tool: " \o a.tool_name)
    /\ OracleCall
    /\ UNCHANGED <<store_vars, config, env, task_id, next_uuid, checkpoint_count,
                   iteration, clock, rejections, auto_run>>

\* Lines 208-215: the breakpoint check before the tool.
BreakTool ==
    /\ pc = "bp_tool"
    /\ events' = events \o handle_debug_break("tool")
    /\ pc' = "approval"
    /\ UNCHANGED <<rl_vars, store_vars, config, env, task_id, next_uuid, checkpoint_count, state,
                   storage, debug_session, debug_callback, iteration, action,
                   outcome, llm_calls, clock, rejections, auto_run>>

\* The approval condition without its auto_approve_tools disjunct.
NeedsApprovalCounterOnly ==
    state.consecutive_auto_approvals >= config.max_consecutive_auto_approvals

\* The approval condition with a strict comparison of the counter.
NeedsApprovalStrict ==
    \/ ~config.auto_approve_tools
    \/ state.consecutive_auto_approvals > config.max_consecutive_auto_approvals

\* The condition of lines 218-221: approval must be asked.
NeedsApproval ==
    \/ ~config.auto_approve_tools
    \/ state.consecutive_auto_approvals >= config.max_consecutive_auto_approvals

\* get_approval answers, and a rejection falls through to the execution.
GetApprovalNoContinue(approved) ==
    /\ pc = "approval"
    /\ NeedsApproval
    /\ events' = Append(events, IF approved THEN "get_approval:true"
                                ELSE "get_approval:false")
    /\ state' = IF approved THEN reset_auto_approvals(state) ELSE state
    /\ pc' = "exec"
    /\ rejections' = IF approved THEN rejections ELSE rejections + 1
    /\ auto_run' = auto_run
    /\ UNCHANGED <<rl_vars, store_vars, config, env, task_id, next_uuid, checkpoint_count, storage,
                   debug_session, debug_callback, iteration, action, outcome,
                   llm_calls, clock>>

\* Lines 222-234: get_approval answers; a rejection continues the loop, a
\* grant resets the counter.
GetApproval(approved) ==
    /\ pc = "approval"
    /\ NeedsApproval
    /\ events' = Append(events, IF approved THEN "get_approval:true"
                                ELSE "get_approval:false")
    /\ IF approved
       THEN state' = reset_auto_approvals(state) /\ pc' = "exec"
       ELSE state' = state /\ pc' = "loop"
    /\ rejections' = IF approved THEN rejections ELSE rejections + 1
    /\ auto_run' = auto_run
    /\ UNCHANGED <<rl_vars, store_vars, config, env, task_id, next_uuid, checkpoint_count, storage,
                   debug_session, debug_callback, iteration, action, outcome,
                   llm_calls, clock>>

\* Lines 235-236: no approval is needed, the counter is incremented.
AutoApprove ==
    /\ pc = "approval"
    /\ ~NeedsApproval
    /\ state' = increment_auto_approvals(state)
    /\ pc' = "exec"
    /\ UNCHANGED <<rl_vars, store_vars, config, env, task_id, next_uuid, checkpoint_count, storage,
                   debug_session, debug_callback, iteration, action, outcome,
                   events, llm_calls, clock, rejections, auto_run>>

\* Lines 217-238, the tool has executed: it extends the run of tools
\* executed without a get_approval call, or, granted by get_approval in this
\* iteration, ends it.
AutoRunAfterExecution ==
    IF \E i \in 1..Len(events) : events[i] = "get_approval:true"
    THEN 0
    ELSE auto_run + 1

\* The checkpoint cap with a strict comparison.
CheckpointCapReachedStrict == checkpoint_count > config.max_checkpoints

\* The guard of Agent._create_checkpoint, line 301: the request is dropped.
CheckpointCapReached == checkpoint_count >= config.max_checkpoints

\* A dispatch that requests the checkpoint before the record is persisted.
ExecuteToolCheckpointBeforeSave(result) ==
    /\ pc = "exec"
    /\ auto_run' = AutoRunAfterExecution
    /\ LET s1 == add_tool_result(state, action.tool_name, result, action.tool_args, clock)
           creates == /\ config.auto_checkpoint
                      /\ ~CheckpointCapReached
                      /\ ~create_checkpoint_raises(storage, task_id)
           fs1 == IF creates
                  THEN create_checkpoint(storage, task_id,
                           "After executing tool: " \o action.tool_name, clock + 1)
                  ELSE storage
       IN /\ state' = s1
          /\ storage' = save_state(fs1, task_id, s1)
          /\ checkpoint_count' = IF creates THEN checkpoint_count + 1
                                 ELSE checkpoint_count
          /\ clock' = IF creates THEN clock + 1 ELSE clock
          /\ events' = events \o <<"execute">>
                       \o (IF config.auto_checkpoint THEN <<"_create_checkpoint">> ELSE <<>>)
                       \o (IF creates THEN <<"create_checkpoint">> ELSE <<>>)
    /\ pc' = "loop"
    /\ UNCHANGED <<rl_vars, store_vars, config, env, task_id, next_uuid, debug_session,
                   debug_callback, iteration, action, outcome, llm_calls, rejections>>

\* Lines 238-258: the tool runs, its record is appended and persisted, and
\* with auto_checkpoint a checkpoint is requested (Agent._create_checkpoint).
ExecuteTool(result) ==
    /\ pc = "exec"
    /\ auto_run' = AutoRunAfterExecution
    /\ LET s1 == add_tool_result(state, action.tool_name, result, action.tool_args, clock)
           fs1 == save_state(storage, task_id, s1)
           creates == /\ config.auto_checkpoint
                      /\ ~CheckpointCapReached
                      /\ ~create_checkpoint_raises(fs1, task_id)
       IN /\ state' = s1
          /\ storage' = IF creates
                        THEN create_checkpoint(fs1, task_id,
                                 "After executing tool: " \o action.tool_name, clock + 1)
                        ELSE fs1
          /\ checkpoint_count' = IF creates THEN checkpoint_count + 1
                                 ELSE checkpoint_count
          /\ clock' = IF creates THEN clock + 1 ELSE clock
          /\ events' = events \o <<"execute">>
                       \o (IF config.auto_checkpoint THEN <<"_create_checkpoint">> ELSE <<>>)
                       \o (IF creates THEN <<"create_checkpoint">> ELSE <<>>)
    /\ pc' = "loop"
    /\ UNCHANGED <<rl_vars, store_vars, config, env, task_id, next_uuid, debug_session,
                   debug_callback, iteration, action, outcome, llm_calls, rejections>>

\* An except block of _create_checkpoint that lets the exception go on to
\* the except block of execute_task.
ExecuteToolCheckpointRaises(result, msg) ==
    /\ pc = "exec"
    /\ auto_run' = AutoRunAfterExecution
    /\ config.auto_checkpoint
    /\ ~CheckpointCapReached
    /\ LET s1 == add_tool_result(state, action.tool_name, result, action.tool_args, clock)
           fs1 == save_state(storage, task_id, s1)
       IN ExceptThenFinally(fs1, s1, msg)
    /\ events' = events \o <<"execute", "_create_checkpoint", "create_checkpoint:raise">>
    /\ UNCHANGED <<rl_vars, store_vars, config, env, task_id, next_uuid, checkpoint_count,
                   iteration, action, llm_calls, clock, rejections>>

\* Lines 238-258 when storage.create_checkpoint raises (the directory cannot
\* be read or written): the tool has run, its record is appended and
\* persisted, and the except block of _create_checkpoint (lines 306-311)
\* logs a warning.
ExecuteToolCheckpointFails(result, msg) ==
    /\ pc = "exec"
    /\ auto_run' = AutoRunAfterExecution
    /\ config.auto_checkpoint
    /\ ~CheckpointCapReached
    /\ LET s1 == add_tool_result(state, action.tool_name, result, action.tool_args, clock)
       IN /\ state' = s1
          /\ storage' = save_state(storage, task_id, s1)
    /\ events' = events \o <<"execute", "_create_checkpoint", "create_checkpoint:raise">>
    /\ pc' = "loop"
    /\ UNCHANGED <<rl_vars, store_vars, config, env, task_id, next_uuid, checkpoint_count,
                   debug_session, debug_callback, iteration, action, outcome,
                   llm_calls, clock, rejections>>

\* The collaborator awaited at the current position can raise: the debug
\* callback where a breakpoint check invokes it, the oracle, the approval
\* callback where approval is asked, the tool.
CanRaise ==
    \/ pc = "bp_llm" /\ handle_debug_break("llm") # <<>>
    \/ pc = "bp_tool" /\ handle_debug_break("tool") # <<>>
    \/ pc = "llm"
    \/ pc = "approval" /\ NeedsApproval
    \/ pc = "exec"

\* Agent._handle_debug_break, lines 294-297: the callbacks that have returned
\* when a collaborator raises at the current position.  At a breakpoint
\* check on_break raises, or on_break returns and on_step raises; elsewhere
\* nothing precedes the raise.
RaisePoints ==
    LET calls == IF pc = "bp_llm" THEN handle_debug_break("llm")
                 ELSE IF pc = "bp_tool" THEN handle_debug_break("tool")
                 ELSE <<>>
    IN IF calls = <<>> THEN {<<>>}
       ELSE {SubSeq(calls, 1, k) : k \in 0..(Len(calls) - 1)}

\* A collaborator raises an instance of Exception with message msg: the
\* except block (lines 264-271), then the finally block.
Raise(msg) ==
    /\ CanRaise
    /\ \E returned \in RaisePoints : events' = events \o returned
    /\ ExceptThenFinally(storage, state, msg)
    /\ UNCHANGED <<rl_vars, store_vars, config, env, task_id, next_uuid, checkpoint_count, iteration,
                   action, llm_calls, clock, rejections, auto_run>>

\* A collaborator raises an exception that is no instance of Exception
\* (asyncio.CancelledError, KeyboardInterrupt) with message msg: `except
\* Exception` (line 264) does not apply, the finally block (lines 273-279)
\* runs and the exception goes on to the caller.
RaiseBaseException(msg) ==
    /\ CanRaise
    /\ \E returned \in RaisePoints : events' = events \o returned
    /\ Finally(storage, state)
    /\ outcome' = [kind |-> "raise", value |-> msg]
    /\ pc' = "idle"
    /\ UNCHANGED <<rl_vars, store_vars, config, env, task_id, next_uuid, checkpoint_count, state,
                   iteration, action, llm_calls, clock, rejections, auto_run>>

\* ------------------------------------ callers of one OpenAIProvider
\* A request sent whether or not acquire() has returned.
ChatCompletionsCreateUnlimited ==
    /\ rl_sent' = Append(rl_sent, rl_now)
    /\ UNCHANGED <<agent_vars, store_vars, rl_rpm, rl_requests, rl_locked, rl_waiters,
                   rl_now, rl_pc, rl_wake, rl_frames, rl_acquired, rl_answer>>

\* openai.py:116-120: the caller whose acquire() has returned sends its
\* request.
ChatCompletionsCreate ==
    /\ RequestPending
    /\ rl_sent' = Append(rl_sent, rl_now)
    /\ UNCHANGED <<agent_vars, store_vars, rl_rpm, rl_requests, rl_locked, rl_waiters,
                   rl_now, rl_pc, rl_wake, rl_frames, rl_acquired, rl_answer>>

\* openai.py:112-114: caller c enters get_next_action and awaits acquire().
ProviderAcquire(c) == ~RequestPending /\ CallAcquire(c)

\* The event loop resumes caller c inside acquire().
ProviderResume(c) == ~RequestPending /\ Resume(c)

\* Time passes while no caller is between acquire() and its request.
ProviderTick == ~RequestPending /\ Tick

\* openai.py:114, 140-145: acquire() raises in caller c with message msg
\* before anything is registered; the except block returns the error action
\* and the chat completion call is skipped.
ProviderAcquireRaises(c, msg) ==
    /\ ~RequestPending
    /\ rl_pc[c] = "idle"
    /\ action' = get_next_action([kind |-> "api_error", text |-> msg])
    /\ UNCHANGED <<rl_vars, store_vars, config, env, task_id, next_uuid, checkpoint_count,
                   state, storage, debug_session, debug_callback, pc, iteration,
                   outcome, events, llm_calls, rejections, auto_run, clock>>

\* ------------------------------------------------- calls on the two stores
\* The task ids used on the stores: "1" and "1_2".
StoreIds == {<<1>>, <<1, 2>>}

\* The snapshots given to save_state: TaskState dicts of a task with no
\* message, with one message and a context key, with a second message (in
\* which both terms occur, one in upper case) and a second key, and of a
\* completed task with another message and context.
Snapshot0(tid) == start_new_task(TaskState0, "t", tid)
Snapshot1(tid) ==
    update_context(add_message(Snapshot0(tid), "user", "a", 1), <<<<"k", 1>>>>)
Snapshot2(tid) ==
    update_context(add_message(Snapshot1(tid), "assistant", "aB", 2), <<<<"j", 1>>>>)
Snapshot3(tid) ==
    mark_complete(update_context(add_message(Snapshot0(tid), "assistant", "b", 2),
                                 <<<<"j", 2>>>>), 3)
Snapshots(tid) == {Snapshot0(tid), Snapshot1(tid), Snapshot2(tid), Snapshot3(tid)}

\* The terms searched for, and the limits given to the searches.
Queries == {"a", "b", "A", "%"}
SearchLimits == {1, search_limit}
RelatedLimits == {1, related_limit}

\* The checkpoint ids given to restore_checkpoint.
RestoreIds == {Append(tid, k) : tid \in StoreIds, k \in 1..2}

\* A call: its name, its id argument, the state stored under the task id
\* before it, whether it raised, and what it returned.
NoCall == [op |-> "none", task_id |-> NoId, before |-> NoState,
           raised |-> FALSE, result |-> NoState]

StoreInit ==
    /\ st_fs = Instantiate(JsonStateStorage_defines, Storage0)
    /\ st_db = Instantiate(SqliteStateStorage_defines, SqliteDb0)
    /\ st_clock = 0
    /\ st_ops = 0
    /\ st_last = NoCall
    /\ st_created = <<>>
    /\ st_saved = <<>>

\* save_state(tid, snapshot) on the JSON store and, when there is one, on
\* the SQLite store.
StoreSaveState(tid, snapshot) ==
    /\ st_ops < MaxStoreOps
    /\ st_ops' = st_ops + 1
    /\ st_fs' = save_state(st_fs, tid, snapshot)
    /\ st_db' = IF Constructed(st_db) THEN sqlite_save_state(st_db, tid, snapshot)
                ELSE st_db
    /\ st_saved' = WriteFile(st_saved, tid, snapshot)
    /\ st_last' = [op |-> "save_state", task_id |-> tid,
                   before |-> load_state(st_fs, tid), raised |-> FALSE,
                   result |-> snapshot]
    /\ UNCHANGED <<agent_vars, rl_vars, st_clock, st_created>>

\* create_checkpoint(tid, description) on the JSON store.
StoreCreateCheckpoint(tid) ==
    /\ st_ops < MaxStoreOps
    /\ st_ops' = st_ops + 1
    /\ IF create_checkpoint_raises(st_fs, tid)
       THEN /\ st_last' = [op |-> "create_checkpoint", task_id |-> tid,
                           before |-> load_state(st_fs, tid),
                           raised |-> TRUE, result |-> NoState]
            /\ UNCHANGED <<st_fs, st_clock, st_created>>
       ELSE /\ st_fs' = create_checkpoint(st_fs, tid, "d", st_clock + 1)
            /\ st_clock' = st_clock + 1
            /\ st_created' = Append(st_created,
                                    new_checkpoint(st_fs, tid, "d", st_clock + 1))
            /\ st_last' = [op |-> "create_checkpoint", task_id |-> tid,
                           before |-> load_state(st_fs, tid), raised |-> FALSE,
                           result |-> new_checkpoint(st_fs, tid, "d", st_clock + 1)]
    /\ UNCHANGED <<agent_vars, rl_vars, st_db, st_saved>>

\* restore_checkpoint(checkpoint_id) on the JSON store.
StoreRestoreCheckpoint(checkpoint_id) ==
    /\ st_ops < MaxStoreOps
    /\ st_ops' = st_ops + 1
    /\ IF restore_checkpoint_raises(st_fs, checkpoint_id)
       THEN /\ st_last' = [op |-> "restore_checkpoint", task_id |-> checkpoint_id,
                           before |-> NoState, raised |-> TRUE, result |-> NoState]
            /\ UNCHANGED <<st_fs, st_saved>>
       ELSE /\ st_fs' = restore_checkpoint(st_fs, checkpoint_id)
            /\ st_saved' = WriteFile(st_saved,
                               SubSeq(checkpoint_id, 1, Len(checkpoint_id) - 1),
                               restored_state(st_fs, checkpoint_id))
            /\ st_last' = [op |-> "restore_checkpoint", task_id |-> checkpoint_id,
                           before |-> load_state(st_fs,
                               SubSeq(checkpoint_id, 1, Len(checkpoint_id) - 1)),
                           raised |-> FALSE,
                           result |-> restored_state(st_fs, checkpoint_id)]
    /\ UNCHANGED <<agent_vars, rl_vars, st_db, st_clock, st_created>>

Init ==
    /\ StoreInit
    /\ \E cfg \in Configs : AgentInit(cfg)
    /\ env = [run_limit |-> 1, horizon |-> max_iterations + 1]
    /\ RLInit(1)

Next ==
    \/ \E cb \in BOOLEAN : ExecuteTask("t", cb)
    \/ LoopIterate
    \/ LoopExit
    \/ BreakLLM
    \/ \E a \in OracleActions(iteration) : OracleAnswerInvalid(a)
    \/ \E a \in OracleActions(iteration) : Complete(a)
    \/ \E a \in OracleActions(iteration) : NoTool(a)
    \/ \E a \in OracleActions(iteration) : ResolveTool(a)
    \/ BreakTool
    \/ \E approved \in BOOLEAN : GetApproval(approved)
    \/ AutoApprove
    \/ \E result \in ToolResults : ExecuteTool(result)
    \/ \E msg \in ExcMsgs : Raise(msg)
    \/ \E msg \in ExcMsgs : RaiseBaseException(msg)

Spec == Init /\ [][Next]_vars

\* config.enable_debug(step_by_step, breakpoints) on the configuration of
\* an engine that is running no task.
CallEnableDebug(step_by_step, breakpoints) ==
    /\ pc = "idle"
    /\ config' = enable_debug(config, step_by_step, breakpoints)
    /\ UNCHANGED <<rl_vars, store_vars, env, task_id, next_uuid, checkpoint_count,
                   state, storage, debug_session, debug_callback, pc, iteration,
                   action, outcome, events, llm_calls, rejections, auto_run, clock>>

\* The breakpoints given to enable_debug: none, or one.
EnabledBreakpoints ==
    {<<>>, <<[type |-> "llm", condition |-> "none", enabled |-> TRUE]>>}

\* One engine is given the tasks of ReuseTasks one after the other; the
\* oracle completes each task by iteration ReuseHorizon at the latest.
ReuseTasks == <<"t", "u">>

InitReuse ==
    /\ StoreInit
    /\ \E cfg \in Configs : AgentInit(cfg)
    /\ env = [run_limit |-> Len(ReuseTasks), horizon |-> ReuseHorizon]
    /\ RLInit(1)

NextReuse ==
    \/ \E cb \in BOOLEAN : ExecuteTask(ReuseTasks[next_uuid - 1], cb)
    \/ \E step_by_step \in BOOLEAN : \E breakpoints \in EnabledBreakpoints :
          CallEnableDebug(step_by_step, breakpoints)
    \/ LoopIterate
    \/ BreakLLM
    \/ \E a \in OracleActions(iteration) : OracleAnswerInvalid(a)
    \/ \E a \in OracleActions(iteration) : Complete(a)
    \/ \E a \in OracleActions(iteration) : NoTool(a)
    \/ \E a \in OracleActions(iteration) : ResolveTool(a)
    \/ BreakTool
    \/ \E approved \in BOOLEAN : GetApproval(approved)
    \/ AutoApprove
    \/ \E result \in ToolResults : ExecuteTool(result)
    \/ \E msg \in ExcMsgs : Raise(msg)
    \/ \E msg \in ExcMsgs : RaiseBaseException(msg)

SpecReuse == InitReuse /\ [][NextReuse]_vars

\* The engine behind the OpenAI adapter, whose RateLimiter has rpm 1 or the
\* default of the configuration: in each run an oracle call that fails
\* fails in the same way (env.failure).
OracleRpms == {1, rate_limit}
\* The configurations of that engine: checkpoints are not requested.
OracleConfigs == {cfg \in Configs : ~cfg.auto_checkpoint}

InitOracle ==
    /\ StoreInit
    /\ \E cfg \in OracleConfigs : AgentInit(cfg)
    /\ \E failure \in ApiFailures :
          env = [run_limit |-> 1, horizon |-> max_iterations + 1,
                 failure |-> failure, openai |-> TRUE]
    /\ \E rpm \in OracleRpms : RLInit(rpm)

\* What the API call of one oracle query can produce in this run.
ApiResponses == ApiAnswers(iteration) \cup {env.failure}

NextOracle ==
    \/ \E cb \in BOOLEAN : ExecuteTask("t", cb)
    \/ LoopIterate
    \/ LoopExit
    \/ BreakLLM
    \/ OracleCallSuspends
    \/ OracleCallResumes
    \/ OracleTick
    \/ \E r \in ApiResponses : OracleAnswerInvalid(get_next_action(r))
    \/ \E r \in ApiResponses : Complete(get_next_action(r))
    \/ \E r \in ApiResponses : NoTool(get_next_action(r))
    \/ \E r \in ApiResponses : ResolveTool(get_next_action(r))
    \/ BreakTool
    \/ \E approved \in BOOLEAN : GetApproval(approved)
    \/ AutoApprove
    \/ \E result \in ToolResults : ExecuteTool(result)

SpecOracle == InitOracle /\ [][NextOracle]_vars

\* The engine, configured with auto_checkpoint, on a store whose
\* create_checkpoint can fail; the task can run up to the iteration limit.
CheckpointingConfigs == {cfg \in Configs : cfg.auto_checkpoint}

InitCheckpoint ==
    /\ StoreInit
    /\ \E cfg \in CheckpointingConfigs : AgentInit(cfg)
    /\ env = [run_limit |-> 1, horizon |-> max_iterations + 1]
    /\ RLInit(1)

NextCheckpoint ==
    \/ \E cb \in BOOLEAN : ExecuteTask("t", cb)
    \/ LoopIterate
    \/ LoopExit
    \/ BreakLLM
    \/ \E a \in OracleActions(iteration) : OracleAnswerInvalid(a)
    \/ \E a \in OracleActions(iteration) : Complete(a)
    \/ \E a \in OracleActions(iteration) : NoTool(a)
    \/ \E a \in OracleActions(iteration) : ResolveTool(a)
    \/ BreakTool
    \/ \E approved \in BOOLEAN : GetApproval(approved)
    \/ AutoApprove
    \/ \E result \in ToolResults : ExecuteTool(result)
    \/ \E result \in ToolResults : \E msg \in ExcMsgs :
            ExecuteToolCheckpointFails(result, msg)
    \/ \E msg \in ExcMsgs : Raise(msg)
    \/ \E msg \in ExcMsgs : RaiseBaseException(msg)

SpecCheckpoint == InitCheckpoint /\ [][NextCheckpoint]_vars

\* The engine with auto_checkpoint and a cap that lets a task have several
\* checkpoints; the oracle completes the task by iteration CkptHorizon at
\* the latest.
ChainConfigs ==
    {[cfg EXCEPT !.auto_checkpoint = TRUE, !.max_checkpoints = n] :
        cfg \in Configs, n \in 1..(MaxCkptBound + 1)}

InitChain ==
    /\ StoreInit
    /\ \E cfg \in ChainConfigs : AgentInit(cfg)
    /\ env = [run_limit |-> 1, horizon |-> CkptHorizon]
    /\ RLInit(1)

NextChain ==
    \/ \E cb \in BOOLEAN : ExecuteTask("t", cb)
    \/ LoopIterate
    \/ BreakLLM
    \/ \E a \in OracleActions(iteration) : OracleAnswerInvalid(a)
    \/ \E a \in OracleActions(iteration) : Complete(a)
    \/ \E a \in OracleActions(iteration) : NoTool(a)
    \/ \E a \in OracleActions(iteration) : ResolveTool(a)
    \/ BreakTool
    \/ \E approved \in BOOLEAN : GetApproval(approved)
    \/ AutoApprove
    \/ \E result \in ToolResults : ExecuteTool(result)
    \/ \E result \in ToolResults : \E msg \in ExcMsgs :
            ExecuteToolCheckpointFails(result, msg)
    \/ \E msg \in ExcMsgs : Raise(msg)
    \/ \E msg \in ExcMsgs : RaiseBaseException(msg)

SpecChain == InitChain /\ [][NextChain]_vars

\* An engine whose llm attribute is set to None by the embedding program,
\* before or after a task, and whose execute_task is then called; the
\* oracle completes a task by iteration CkptHorizon at the latest.
InitNoLLM ==
    /\ StoreInit
    /\ \E cfg \in Configs : AgentInit(cfg)
    /\ env = [run_limit |-> 1, horizon |-> CkptHorizon, llm |-> TRUE]
    /\ RLInit(1)

\* agent.llm = None, between two calls of execute_task.
DropLLM ==
    /\ pc = "idle"
    /\ env.llm
    /\ env' = [env EXCEPT !.llm = FALSE]
    /\ UNCHANGED <<rl_vars, store_vars, config, task_id, next_uuid, checkpoint_count,
                   state, storage, debug_session, debug_callback, pc, iteration,
                   action, outcome, events, llm_calls, rejections, auto_run, clock>>

NextNoLLM ==
    \/ \E cb \in BOOLEAN : ExecuteTask("t", cb)
    \/ DropLLM
    \/ \E cb \in BOOLEAN : ExecuteTaskWithoutLLM("u", cb)
    \/ LoopIterate
    \/ BreakLLM
    \/ \E a \in OracleActions(iteration) : OracleAnswerInvalid(a)
    \/ \E a \in OracleActions(iteration) : Complete(a)
    \/ \E a \in OracleActions(iteration) : NoTool(a)
    \/ \E a \in OracleActions(iteration) : ResolveTool(a)
    \/ BreakTool
    \/ \E approved \in BOOLEAN : GetApproval(approved)
    \/ AutoApprove
    \/ \E result \in ToolResults : ExecuteTool(result)
    \/ \E msg \in ExcMsgs : Raise(msg)
    \/ \E msg \in ExcMsgs : RaiseBaseException(msg)

SpecNoLLM == InitNoLLM /\ [][NextNoLLM]_vars

\* The TaskState of an engine whose methods are called directly, in any
\* order; events holds the name of the last method called.
TaskStateCall(name, s) ==
    /\ pc = "idle"
    /\ clock < MaxStateOps
    /\ state' = s
    /\ clock' = clock + 1
    /\ events' = <<name>>
    /\ UNCHANGED <<rl_vars, store_vars, config, env, task_id, next_uuid,
                   checkpoint_count, storage, debug_session, debug_callback,
                   pc, iteration, action, outcome, llm_calls, rejections, auto_run>>

CallStartNewTask(task, tid) ==
    TaskStateCall("start_new_task", start_new_task(state, task, tid))
CallAddToolResult(tool_name, result) ==
    TaskStateCall("add_tool_result",
                  add_tool_result(state, tool_name, result, "x=1", clock))
CallAddMessage(content) ==
    TaskStateCall("add_message", add_message(state, "user", content, clock))
CallAddUserInput(content) ==
    TaskStateCall("add_user_input", add_user_input(state, content, clock))
CallAddRelatedTask(tid) ==
    TaskStateCall("add_related_task",
                  add_related_task(state, tid, "d", 1, TRUE, clock))
CallUpdateContext(updates) ==
    TaskStateCall("update_context", update_context(state, updates))
CallMarkComplete ==
    TaskStateCall("mark_complete", mark_complete(state, clock))
CallMarkFailed(error_message) ==
    TaskStateCall("mark_failed", mark_failed(state, error_message, clock))
CallResetAutoApprovals ==
    TaskStateCall("reset_auto_approvals", reset_auto_approvals(state))
CallIncrementAutoApprovals ==
    TaskStateCall("increment_auto_approvals", increment_auto_approvals(state))

\* A public method of the Agent that persists is called between runs and
\* leaves saved = <<state, storage>>; events holds its name.
AgentCall(name, saved) ==
    /\ pc = "idle"
    /\ clock < MaxStateOps
    /\ state' = saved[1]
    /\ storage' = saved[2]
    /\ clock' = clock + 1
    /\ events' = <<name>>
    /\ UNCHANGED <<rl_vars, store_vars, config, env, task_id, next_uuid,
                   checkpoint_count, debug_session, debug_callback, pc,
                   iteration, action, outcome, llm_calls, rejections, auto_run>>

SaveUserInput(content) ==
    AgentCall("save_user_input", save_user_input(content, state, storage, task_id))
SaveMessage(role, content) ==
    AgentCall("save_message", save_message(role, content, state, storage, task_id))
UpdateContext(updates) ==
    AgentCall("Agent.update_context",
              Agent_update_context(updates, state, storage, task_id))

\* The tasks given to start_new_task, with their ids.
StartedTasks == {<<"t", <<1>>>>, <<"u", <<2>>>>}

InitTaskState ==
    /\ StoreInit
    /\ AgentInit(CHOOSE cfg \in Configs : ~cfg.debug.enabled)
    /\ env = [run_limit |-> 0, horizon |-> max_iterations + 1]
    /\ RLInit(1)

NextTaskState ==
    \/ \E t \in StartedTasks : CallStartNewTask(t[1], t[2])
    \/ CallAddToolResult("echo", "ok")
    \/ CallAddMessage("a")
    \/ CallAddUserInput("a")
    \/ CallAddRelatedTask(<<1>>)
    \/ CallUpdateContext(<<<<"k", clock>>>>)
    \/ CallMarkComplete
    \/ \E msg \in ExcMsgs : CallMarkFailed(msg)
    \/ CallResetAutoApprovals
    \/ CallIncrementAutoApprovals
    \/ SaveUserInput("a")
    \/ SaveMessage("user", "a")
    \/ UpdateContext(<<<<"k", clock>>>>)

SpecTaskState == InitTaskState /\ [][NextTaskState]_vars

\* A DebugSession of any content, asked whether to break.
Breakpoints ==
    [type : BreakpointTypes, condition : {"none", "", "true", "false", "error"},
     enabled : BOOLEAN]
BreakpointLists ==
    UNION {[1..n -> Breakpoints] : n \in 0..MaxBreakpoints}
DebugSessions ==
    {[active |-> a, step_by_step |-> sbs, breakpoints |-> bps,
      names |-> SubSeq(BreakpointNames, 1, Len(bps))] :
        a \in BOOLEAN, sbs \in BOOLEAN, bps \in BreakpointLists}

\* should_break(bp_type, context) is called; events holds the kind asked
\* and outcome what was returned.
CallShouldBreak(bp_type) ==
    /\ pc = "idle"
    /\ events' = <<bp_type>>
    /\ outcome' = [kind |-> "return",
                   value |-> IF should_break(debug_session, bp_type)
                             THEN "True" ELSE "False"]
    /\ UNCHANGED <<rl_vars, store_vars, config, env, task_id, next_uuid,
                   checkpoint_count, state, storage, debug_session,
                   debug_callback, pc, iteration, action, llm_calls,
                   rejections, auto_run, clock>>

InitDebug ==
    /\ StoreInit
    /\ config = CHOOSE cfg \in Configs : cfg.debug.enabled
    /\ debug_session \in DebugSessions
    /\ task_id = <<1>>
    /\ next_uuid = 2
    /\ checkpoint_count = 0
    /\ state = TaskState0
    /\ storage = Storage0
    /\ debug_callback = FALSE
    /\ pc = "idle"
    /\ iteration = 0
    /\ action = NoAction
    /\ outcome = NoOutcome
    /\ events = <<>>
    /\ llm_calls = 0
    /\ rejections = 0
    /\ auto_run = 0
    /\ clock = 0
    /\ env = [run_limit |-> 0, horizon |-> max_iterations + 1]
    /\ RLInit(1)

\* A method of the DebugSession that returns nothing is called and leaves
\* session; events holds its name.
DebugSessionCall(name, session) ==
    /\ pc = "idle"
    /\ debug_session' = session
    /\ events' = <<name>>
    /\ outcome' = NoOutcome
    /\ UNCHANGED <<rl_vars, store_vars, config, env, task_id, next_uuid,
                   checkpoint_count, state, storage, debug_callback, pc,
                   iteration, action, llm_calls, rejections, auto_run, clock>>

CallStart == DebugSessionCall("start", start(debug_session))
CallStop == DebugSessionCall("stop", stop(debug_session))
CallAddBreakpoint(name, bp_config) ==
    /\ \/ \E i \in 1..Len(debug_session.names) : debug_session.names[i] = name
       \/ Len(debug_session.names) < MaxBreakpoints
    /\ DebugSessionCall("add_breakpoint",
                        add_breakpoint(debug_session, name, bp_config))
CallRemoveBreakpoint(name) ==
    DebugSessionCall("remove_breakpoint", remove_breakpoint(debug_session, name))

\* The names and the breakpoints given to add_breakpoint and
\* remove_breakpoint.
CalledNames == {BreakpointNames[i] : i \in 1..MaxBreakpoints}
AddedBreakpoints ==
    {[type |-> "tool", condition |-> "none", enabled |-> TRUE],
     [type |-> "llm", condition |-> "error", enabled |-> TRUE]}

NextDebug ==
    \/ \E bp_type \in BreakpointTypes : CallShouldBreak(bp_type)
    \/ CallStart
    \/ CallStop
    \/ \E name \in CalledNames : \E bp_config \in AddedBreakpoints :
          CallAddBreakpoint(name, bp_config)
    \/ \E name \in CalledNames : CallRemoveBreakpoint(name)
    \/ \E step_by_step \in BOOLEAN : \E breakpoints \in EnabledBreakpoints :
          CallEnableDebug(step_by_step, breakpoints)

SpecDebug == InitDebug /\ [][NextDebug]_vars

\* The two storage backends alone, beside an engine that runs no task: the
\* JSON store, and what the construction of the SQLite store gave.
InitStore ==
    /\ StoreInit
    /\ AgentInit(CHOOSE cfg \in Configs : ~cfg.debug.enabled)
    /\ env = [run_limit |-> 0, horizon |-> max_iterations + 1]
    /\ RLInit(1)

NextStore ==
    \/ \E tid \in StoreIds : \E snapshot \in Snapshots(tid) :
            StoreSaveState(tid, snapshot)
    \/ \E tid \in StoreIds : StoreCreateCheckpoint(tid)
    \/ \E checkpoint_id \in RestoreIds : StoreRestoreCheckpoint(checkpoint_id)

SpecStore == InitStore /\ [][NextStore]_vars

\* The rate limiter alone, beside an engine that runs no task.
InitRL ==
    /\ StoreInit
    /\ \E rpm \in 1..MaxRpm : RLInit(rpm)
    /\ AgentInit(CHOOSE cfg \in Configs : ~cfg.debug.enabled)
    /\ env = [run_limit |-> 0, horizon |-> max_iterations + 1]

NextRL ==
    \/ \E c \in Callers : CallAcquire(c)
    \/ \E c \in Callers : Resume(c)
    \/ Tick

SpecRL == InitRL /\ [][NextRL]_vars

\* The event loop resumes every caller that can run, and time advances.
SpecRLFair ==
    /\ SpecRL
    /\ \A c \in Callers : WF_vars(Resume(c))
    /\ WF_vars(Tick)

\* The two readers on any window: the list of timestamps is drawn from the
\* non-decreasing lists of at most MaxWindowLen instants, the clock from the
\* instants not before the newest timestamp.
MaxWindowLen == 3
Instants == {t \in 0..MaxTime : t % TickSize = 0}
Windows ==
    {w \in UNION {[1..n -> Instants] : n \in 0..MaxWindowLen} :
        \A i \in 1..(Len(w) - 1) : w[i] <= w[i + 1]}

InitRLRead ==
    /\ StoreInit
    /\ AgentInit(CHOOSE cfg \in Configs : ~cfg.debug.enabled)
    /\ env = [run_limit |-> 0, horizon |-> max_iterations + 1]
    /\ rl_rpm \in 1..MaxRpm
    /\ rl_requests \in Windows
    /\ rl_now \in {t \in Instants : \A i \in 1..Len(rl_requests) : rl_requests[i] <= t}
    /\ rl_locked = FALSE
    /\ rl_waiters = <<>>
    /\ rl_pc = [c \in Callers |-> "idle"]
    /\ rl_wake = [c \in Callers |-> 0]
    /\ rl_frames = [c \in Callers |-> 0]
    /\ rl_acquired = 0
    /\ rl_answer = NoAnswer
    /\ rl_sent = <<>>

NextRLRead ==
    \/ CallGetCurrentRpm
    \/ CallGetWaitTime
    \/ Tick

SpecRLRead == InitRLRead /\ [][NextRLRead]_vars

\* Callers of get_next_action on one OpenAIProvider and its RateLimiter.
NextProvider ==
    \/ \E c \in Callers : ProviderAcquire(c)
    \/ \E c \in Callers : ProviderResume(c)
    \/ ProviderTick
    \/ ChatCompletionsCreate
    \/ \E c \in Callers : \E msg \in ExcMsgs : ProviderAcquireRaises(c, msg)

SpecProvider == InitRL /\ [][NextProvider]_vars

\* Callers of acquire() and of the two readers on one RateLimiter.
NextRLQuery ==
    \/ \E c \in Callers : CallAcquire(c)
    \/ \E c \in Callers : Resume(c)
    \/ Tick
    \/ CallGetCurrentRpm
    \/ CallGetWaitTime

SpecRLQuery == InitRL /\ [][NextRLQuery]_vars

\* ============================================================== properties
Range(seq) == {seq[i] : i \in 1..Len(seq)}
Occurrences(seq, S) == Cardinality({i \in 1..Len(seq) : seq[i] \in S})
FirstIndex(seq, x) == CHOOSE i \in 1..Len(seq) : seq[i] = x /\ \A j \in 1..(i - 1) : seq[j] # x

\* execute_task has been called and has returned or raised.
Finished == pc = "idle" /\ outcome.kind # "none"

\* The call ended with an exception of a collaborator, of the tool lookup or
\* of the message model, not with the iteration limit.
ExceptionRaised ==
    /\ outcome.kind = "raise"
    /\ outcome.value # IterationLimitMsg

\* C1: no run makes more than max_iterations oracle calls; a run in which
\* the oracle never completes and no exception occurs ends after exactly
\* max_iterations oracle calls with the TaskState failed and an error raised
\* to the caller.
C1_IterationBound ==
    /\ llm_calls <= max_iterations
    /\ iteration <= max_iterations
    /\ (Finished /\ ~action.is_complete /\ ~ExceptionRaised) =>
          /\ llm_calls = max_iterations
          /\ state.is_failed
          /\ outcome.kind = "raise"

\* A run reached the iteration limit after a rejected and an executed tool.
C1_Witness ==
    /\ Finished
    /\ outcome.value = IterationLimitMsg
    /\ llm_calls = max_iterations
    /\ rejections >= 1
    /\ Len(state.tool_executions) >= 1

\* What C2 asks of a step that raises msg.
RaisedWith(msg) ==
    /\ state'.is_failed
    /\ state'.error_message = msg
    /\ outcome' = [kind |-> "raise", value |-> msg]
    /\ pc' = "idle"

\* C2: every step of the loop in which an exception is raised (by the debug
\* callback, the oracle, the message model, the tool lookup, the approval
\* callback or the tool) leaves the TaskState failed with that exception's
\* message and raises the same exception to the caller.
C2_FailureSemantics ==
    [][/\ \A msg \in ExcMsgs : Raise(msg) => RaisedWith(msg)
       /\ \A a \in OracleActions(iteration) :
            OracleAnswerInvalid(a) => RaisedWith("validation error: content")
       /\ \A a \in OracleActions(iteration) :
            (ResolveTool(a) /\ a.tool_name \notin RegisteredTools)
                => RaisedWith("Unknown tool: " \o a.tool_name)
       /\ (pc \notin {"idle", "loop"} /\ pc' = "idle" /\ outcome'.kind = "raise")
            => RaisedWith(outcome'.value)]_vars

\* C3: whenever execute_task has ended (return, exception, iteration
\* limit), the state loaded from storage for task_id equals the in-memory
\* TaskState and the debug session is inactive.
C3_FinalStatePersisted ==
    Finished => /\ load_state(storage, task_id) = state
                /\ ~debug_session.active

\* The iteration limit ended a run of an engine with debugging enabled,
\* after a tool execution.
C3_Witness ==
    /\ Finished
    /\ outcome.value = IterationLimitMsg
    /\ config.debug.enabled
    /\ debug_callback = FALSE
    /\ Len(state.tool_executions) >= 1
    /\ load_state(storage, task_id).is_failed

ApprovalEvents == {"get_approval:true", "get_approval:false"}

\* The iteration has dispatched a registered tool and is over.
DispatchEnded ==
    /\ pc = "loop"
    /\ iteration >= 1
    /\ ~action.is_complete
    /\ action.tool_name \in RegisteredTools

\* C4: with auto_approve_tools false, an iteration calls get_approval at
\* most once, exactly once when it has dispatched a registered tool, and a
\* tool is executed only after the single get_approval call of its
\* iteration, which returned true.
C4_ApprovalGating ==
    ~config.auto_approve_tools =>
        /\ Occurrences(events, ApprovalEvents) <= 1
        /\ DispatchEnded => Occurrences(events, ApprovalEvents) = 1
        /\ (pc = "exec" \/ "execute" \in Range(events)) =>
              /\ "get_approval:true" \in Range(events)
              /\ "get_approval:false" \notin Range(events)
        /\ "execute" \in Range(events) =>
              /\ Occurrences(events, {"execute"}) = 1
              /\ FirstIndex(events, "get_approval:true") < FirstIndex(events, "execute")

\* A tool was executed with auto_approve_tools false.
C4_Witness ==
    /\ ~config.auto_approve_tools
    /\ "execute" \in Range(events)
    /\ Len(state.tool_executions) >= 1

\* The frame of a rejection: nothing of the TaskState, the storage or the
\* checkpoint count changes, no tool runs, control returns to the loop head.
RejectionFrame ==
    /\ state' = state
    /\ storage' = storage
    /\ checkpoint_count' = checkpoint_count
    /\ "execute" \notin Range(events')
    /\ pc' = "loop"

\* An approved dispatch that follows a rejection executes the tool once.
ApprovedAfterRejection ==
    (rejections >= 1 /\ DispatchEnded /\ "get_approval:true" \in Range(events)) =>
        /\ Occurrences(events, {"execute"}) = 1
        /\ Len(state.tool_executions) >= 1
        /\ state.tool_executions[Len(state.tool_executions)].tool_name = action.tool_name

\* C5 as stated: a rejection leaves tool_executions, the counter and the
\* checkpoints unchanged, executes nothing, and the loop then queries the
\* oracle again; a later approved request executes the tool exactly once.
C5_RejectionThenRequery ==
    /\ [][GetApproval(FALSE) => (RejectionFrame /\ LoopContinues')]_vars
    /\ [][\A r \in ToolResults : ExecuteTool(r) =>
            Len(state'.tool_executions) = Len(state.tool_executions) + 1]_vars
    /\ []ApprovedAfterRejection

\* C5, amended: as C5, but the loop queries the oracle again only when the
\* rejected iteration was not the last one the iteration limit allows.
C5_Rejection ==
    /\ [][GetApproval(FALSE) =>
            (RejectionFrame /\ (iteration < max_iterations => LoopContinues'))]_vars
    /\ [][\A r \in ToolResults : ExecuteTool(r) =>
            Len(state'.tool_executions) = Len(state.tool_executions) + 1]_vars
    /\ []ApprovedAfterRejection

\* The first request was rejected, the second approved and executed once.
C5_Witness ==
    /\ rejections = 1
    /\ iteration = 2
    /\ DispatchEnded
    /\ "get_approval:true" \in Range(events)
    /\ Len(state.tool_executions) = 1

\* The auto-approval counter and its configured maximum.
Counter == state.consecutive_auto_approvals
MaxCounter == config.max_consecutive_auto_approvals

\* C6: with auto_approve_tools true, a dispatch at the approval gate with
\* the counter below the maximum goes on to the execution without a
\* get_approval call and with the counter incremented by one; with the
\* counter at the maximum it calls get_approval, and a grant resets the
\* counter to 0 before the tool executes.
C6_AutoApproval ==
    [][(config.auto_approve_tools /\ pc = "approval") =>
         /\ Counter < MaxCounter =>
               /\ events' = events
               /\ state'.consecutive_auto_approvals = Counter + 1
               /\ pc' = "exec"
         /\ Counter >= MaxCounter =>
               \/ /\ events' = Append(events, "get_approval:true")
                  /\ state'.consecutive_auto_approvals = 0
                  /\ pc' = "exec"
               \/ /\ events' = Append(events, "get_approval:false")
                  /\ pc' = "loop"
               \/ /\ outcome'.kind = "raise"
                  /\ pc' = "idle"]_vars

\* After one auto-approved execution the counter reached the maximum,
\* approval was asked and granted, and the counter is 0 at the execution.
C6_Witness ==
    /\ config.auto_approve_tools
    /\ MaxCounter = 1
    /\ pc = "exec"
    /\ "get_approval:true" \in Range(events)
    /\ Counter = 0
    /\ Len(state.tool_executions) = 1

\* The number of unexpired timestamps: those newer than now - 60.
Unexpired(requests, now) ==
    Cardinality({i \in 1..Len(requests) : requests[i] > now - RLWindow})

\* C7: at most rpm registered timestamps lie in the trailing 60-second
\* window, and a timestamp is registered only when fewer than rpm
\* unexpired timestamps remain.
C7_WindowBound ==
    /\ [](Unexpired(rl_requests, rl_now) <= rl_rpm)
    /\ [][rl_requests' # rl_requests /\ rl_requests' # <<>>
            /\ rl_requests'[Len(rl_requests')] = rl_now
            /\ rl_acquired' = rl_acquired + 1
          => Unexpired(rl_requests, rl_now) < rl_rpm]_vars

\* The window is full and a caller is suspended at capacity.
C7_Witness ==
    /\ rl_rpm = 2
    /\ Unexpired(rl_requests, rl_now) = 2
    /\ rl_acquired >= 3
    /\ \E c \in Callers : rl_pc[c] = "sleep"

\* C8: a caller suspended at the rate limit eventually registers its
\* timestamp and returns.
C8_SuspendedAcquireReturns ==
    \A c \in Callers : (rl_pc[c] = "sleep") ~> (rl_pc[c] = "idle")

\* C9: no reachable state is a deadlock: while a caller is inside
\* acquire(), some caller sleeps (and time will wake it) or can be resumed.
C9_NoDeadlock ==
    (\E c \in Callers : rl_pc[c] # "idle") =>
        \E c \in Callers : rl_pc[c] = "sleep" \/ CanResume(c)

\* The checkpoints stored for the current task.
StoredCheckpoints == list_checkpoints(storage, task_id)

\* C10: with auto_checkpoint the number of checkpoints stored for the task
\* never exceeds max_checkpoints, and a tool execution made when
\* max_checkpoints checkpoints are stored leaves the stored checkpoints
\* unchanged and raises nothing.
C10_CheckpointCap ==
    /\ [](config.auto_checkpoint => Len(StoredCheckpoints) <= config.max_checkpoints)
    /\ [][\A r \in ToolResults :
            (/\ ExecuteTool(r)
             /\ config.auto_checkpoint
             /\ Len(StoredCheckpoints) >= config.max_checkpoints)
            => /\ storage'.checkpoints = storage.checkpoints
               /\ pc' = "loop"
               /\ outcome' = outcome]_vars

\* The second tool execution of a task with max_checkpoints = 1 requested a
\* checkpoint and none was created.
C10_Witness ==
    /\ config.auto_checkpoint
    /\ config.max_checkpoints = 1
    /\ Len(state.tool_executions) = 2
    /\ Len(StoredCheckpoints) = 1
    /\ "_create_checkpoint" \in Range(events)
    /\ "create_checkpoint" \notin Range(events)

\* C11: the cap is counted per task: in every execute_task call on an
\* engine, a tool execution with auto_checkpoint creates a checkpoint while
\* fewer than max_checkpoints checkpoints are stored for the current task,
\* and drops the request only when max_checkpoints are stored for it.
C11_CapPerTask ==
    [][\A r \in ToolResults :
         (ExecuteTool(r) /\ config.auto_checkpoint) =>
            Len(list_checkpoints(storage', task_id)) =
                IF Len(StoredCheckpoints) < config.max_checkpoints
                THEN Len(StoredCheckpoints) + 1
                ELSE Len(StoredCheckpoints)]_vars

\* The checkpoints create_checkpoint has returned were all made for tid.
OnlyTaskWithCheckpoints(tid) ==
    \A k \in 1..Len(st_created) : st_created[k].task_id = tid

\* C12: when all create_checkpoint calls were made for one task, the k-th
\* checkpoint created has the id <task_id>_<k>, its parent_id is the id of
\* the (k-1)-th (none for the first), and list_checkpoints(task_id) returns
\* the checkpoints in the order of their creation.
C12_CheckpointChain ==
    \A tid \in StoreIds :
        OnlyTaskWithCheckpoints(tid) =>
            /\ \A k \in 1..Len(st_created) :
                  /\ st_created[k].id = Append(tid, k)
                  /\ st_created[k].parent_id =
                        IF k = 1 THEN NoId ELSE st_created[k - 1].id
            /\ LET listed == list_checkpoints(st_fs, tid)
               IN /\ Len(listed) = Len(st_created)
                  /\ \A k \in 1..Len(listed) :
                        /\ listed[k].id = st_created[k].id
                        /\ listed[k].parent_id = st_created[k].parent_id
                        /\ listed[k].task_id = tid

\* Three checkpoints were created for one task.
C12_Witness ==
    /\ Len(st_created) = 3
    /\ OnlyTaskWithCheckpoints(<<1>>)
    /\ Len(list_checkpoints(st_fs, <<1>>)) = 3

\* Two snapshots are equal as dicts: the order of the context items does
\* not count.
SameSnapshot(a, b) ==
    IF a = NoState \/ b = NoState THEN a = b
    ELSE [a EXCEPT !.context = {@[i] : i \in 1..Len(@)}]
         = [b EXCEPT !.context = {@[i] : i \in 1..Len(@)}]

\* C13: on both backends, after save_state(id, s), whatever calls were made
\* before, load_state(id) returns a snapshot equal to s: there is a store of
\* each backend to make the calls on, and each returns s.
C13_RoundTrip ==
    st_last.op = "save_state" =>
        /\ Constructed(st_fs)
        /\ SameSnapshot(load_state(st_fs, st_last.task_id), st_last.result)
        /\ Constructed(st_db)
        /\ SameSnapshot(sqlite_load_state(st_db, st_last.task_id), st_last.result)

\* The lists search_task_history and get_related_tasks can return from a
\* JSON store, one for each order in which the glob can yield the files.
SearchResults(fs, q, limit) ==
    {search_task_history(fs, q, limit, paths) :
        paths \in Orderings(DOMAIN fs.messages)}
RelatedResults(fs, tid, limit) ==
    {get_related_tasks(fs, tid, limit, paths) :
        paths \in Orderings(DOMAIN fs.states)}

\* The lists they can return from a SQLite database, one for each order in
\* which the database can yield rows of equal rank.
SqliteSearchResults(db, q, limit) ==
    {sqlite_search_task_history(db, q, limit, groups) :
        groups \in Orderings({db.messages[i].task_id : i \in 1..Len(db.messages)})}
SqliteRelatedResults(db, tid, limit) ==
    {sqlite_get_related_tasks(db, tid, limit, rows) :
        rows \in Orderings(db.task_relationships)}

\* What can be observed of a JSON store and of a SQLite database.
Observed(fs) ==
    [loaded |-> [tid \in StoreIds |-> load_state(fs, tid)],
     found |-> [q \in Queries |-> [limit \in SearchLimits |->
                    SearchResults(fs, q, limit)]]]
SqliteObserved(db) ==
    [loaded |-> [tid \in StoreIds |-> sqlite_load_state(db, tid)],
     found |-> [q \in Queries |-> [limit \in SearchLimits |->
                    SqliteSearchResults(db, q, limit)]]]

\* C14: on both backends save_state is an idempotent upsert where the last
\* write wins: from every store, saving a snapshot twice leaves what saving
\* it once leaves, and the snapshot loaded after a save is the saved one,
\* with no message or context key of an earlier snapshot.
C14_IdempotentUpsert ==
    \A tid \in StoreIds : \A snapshot \in Snapshots(tid) :
        /\ LET once == save_state(st_fs, tid, snapshot)
           IN /\ Observed(save_state(once, tid, snapshot)) = Observed(once)
              /\ SameSnapshot(load_state(once, tid), snapshot)
        /\ Constructed(st_db)
        /\ LET db_once == sqlite_save_state(st_db, tid, snapshot)
           IN /\ SqliteObserved(sqlite_save_state(db_once, tid, snapshot))
                    = SqliteObserved(db_once)
              /\ SameSnapshot(sqlite_load_state(db_once, tid), snapshot)

\* The Checkpoint object that create_checkpoint returned with this id.
CreatedCheckpoint(checkpoint_id) ==
    st_created[CHOOSE k \in 1..Len(st_created) : st_created[k].id = checkpoint_id]

\* C15: restore_checkpoint of an existing checkpoint returns the snapshot
\* taken when the checkpoint was created and load_state of the checkpoint's
\* task then returns it; the stored checkpoints stay as they are; for an
\* unknown id the call raises and changes nothing.
C15_Restore ==
    /\ []((st_last.op = "restore_checkpoint" /\ ~st_last.raised) =>
            /\ st_last.result = CreatedCheckpoint(st_last.task_id).state
            /\ load_state(st_fs, CreatedCheckpoint(st_last.task_id).task_id)
                  = st_last.result)
    /\ [][\A checkpoint_id \in RestoreIds :
            StoreRestoreCheckpoint(checkpoint_id) =>
                /\ st_fs'.checkpoints = st_fs.checkpoints
                /\ st_last'.raised =
                      (\A k \in 1..Len(st_created) : st_created[k].id # checkpoint_id)
                /\ st_last'.raised => st_fs' = st_fs]_vars

\* A checkpoint was restored over a different current state.
C15_Witness ==
    /\ st_last.op = "restore_checkpoint"
    /\ ~st_last.raised
    /\ st_last.before # st_last.result
    /\ st_last.result = Snapshot1(<<1>>)
    /\ load_state(st_fs, <<1>>) = Snapshot1(<<1>>)

\* C16: create_checkpoint raises, creating nothing and changing nothing,
\* when no state was ever saved for the task; otherwise it succeeds and the
\* checkpoint holds the state saved last for the task.
C16_CreateNeedsState ==
    [][\A tid \in StoreIds :
         StoreCreateCheckpoint(tid) =>
            IF tid \notin DOMAIN st_saved
            THEN /\ st_last'.raised
                 /\ st_fs' = st_fs
                 /\ st_created' = st_created
            ELSE /\ ~st_last'.raised
                 /\ st_last'.result.state = st_saved[tid]
                 /\ \E c \in st_fs'.checkpoints \ st_fs.checkpoints :
                       /\ c.id = st_last'.result.id
                       /\ json_load(c.state) = st_saved[tid]
                 /\ Cardinality(st_fs'.checkpoints)
                       = Cardinality(st_fs.checkpoints) + 1]_vars

\* A checkpoint was created of the second of two saved states.
C16_Witness ==
    /\ st_last.op = "create_checkpoint"
    /\ ~st_last.raised
    /\ st_ops = 3
    /\ st_last.result.state = Snapshot0(<<1>>)
    /\ Len(st_created) = 1

\* C17: a stored checkpoint is never changed: every call leaves each
\* checkpoint file with its id, task_id, description, state and parent_id.
C17_CheckpointImmutable ==
    [][\A c \in st_fs.checkpoints :
         /\ c \in st_fs'.checkpoints
         /\ \A d \in st_fs'.checkpoints : d.id = c.id => d = c]_vars

\* The first of two checkpoints is stored as created, after a save of a
\* different state and the creation of the second.
C17_Witness ==
    /\ Len(st_created) = 2
    /\ st_created[1].state # st_created[2].state
    /\ st_created[1].task_id = st_created[2].task_id
    /\ \E c \in st_fs.checkpoints :
          c.id = st_created[1].id /\ json_load(c.state) = st_created[1].state

\* C18: the backends are equivalent: after the same save_state calls,
\* load_state, search_task_history and get_related_tasks return equivalent
\* results from the JSON store and from the SQLite database.
C18_BackendsEquivalent ==
    st_created = <<>> =>
        /\ Constructed(st_fs) = Constructed(st_db)
        /\ \A tid \in StoreIds :
              SameSnapshot(load_state(st_fs, tid), sqlite_load_state(st_db, tid))
        /\ \A q \in Queries : \A limit \in SearchLimits :
              SearchResults(st_fs, q, limit) = SqliteSearchResults(st_db, q, limit)
        /\ \A tid \in StoreIds : \A limit \in RelatedLimits :
              RelatedResults(st_fs, tid, limit) = SqliteRelatedResults(st_db, tid, limit)

\* C19: an exception raised by a registered tool's execute during the
\* dispatch is absorbed: a failed ToolResult is recorded in tool_executions,
\* the TaskState is not failed, nothing is raised to the caller and the loop
\* goes on.
C19_ToolExceptionAbsorbed ==
    [][\A msg \in ExcMsgs :
         (pc = "exec" /\ Raise(msg)) =>
            /\ ~state'.is_failed
            /\ outcome'.kind # "raise"
            /\ pc' = "loop"
            /\ Len(state'.tool_executions) = Len(state.tool_executions) + 1]_vars

\* C20: when the oracle names a tool that is not registered, the task ends
\* failed with "Unknown tool: <name>" raised to the caller, and in that
\* iteration no TOOL breakpoint fires, get_approval is not called, no tool
\* runs, and tool_executions and consecutive_auto_approvals stay as they are.
C20_UnknownTool ==
    [][\A a \in OracleActions(iteration) :
         (ResolveTool(a) /\ a.tool_name \notin RegisteredTools) =>
            /\ RaisedWith("Unknown tool: " \o a.tool_name)
            /\ events' = Append(events, "get_next_action")
            /\ "on_break:tool" \notin Range(events')
            /\ Occurrences(events', ApprovalEvents) = 0
            /\ "execute" \notin Range(events')
            /\ state'.tool_executions = state.tool_executions
            /\ state'.consecutive_auto_approvals = state.consecutive_auto_approvals
            /\ checkpoint_count' = checkpoint_count]_vars

\* An unregistered tool was named in a step-by-step debug run, after a tool
\* had been executed: the LLM breakpoint fired in that iteration, the TOOL
\* breakpoint did not.
C20_Witness ==
    /\ Finished
    /\ outcome = [kind |-> "raise", value |-> "Unknown tool: ghost"]
    /\ state.is_failed
    /\ action.tool_name = "ghost"
    /\ Len(state.tool_executions) >= 1
    /\ debug_session.step_by_step
    /\ "on_break:llm" \in Range(events)
    /\ "on_break:tool" \notin Range(events)

\* The engine's step on the action the adapter returns for failure f.
OracleFailureStep(f) ==
    /\ pc = "llm"
    /\ llm_calls' = llm_calls + 1
    /\ action' = get_next_action(f)

\* C21: a failed oracle call (network or parse error) comes back from the
\* adapter as an action with is_complete false and no tool_name, and the
\* engine's iteration on it is a no-op: only the thoughts message is
\* appended, no tool runs, no approval is asked, no checkpoint is created,
\* the task does not fail, and the loop goes on; a run whose last oracle
\* call failed ends only at max_iterations.
C21_OracleFailureNoOp ==
    [][/\ \A f \in ApiFailures :
            /\ ~get_next_action(f).is_complete
            /\ get_next_action(f).tool_name = NoText
            /\ OracleFailureStep(f) =>
                  /\ state' = add_message(state, "assistant",
                                          get_next_action(f).thoughts, clock)
                  /\ events' = Append(events, "get_next_action")
                  /\ checkpoint_count' = checkpoint_count
                  /\ storage'.checkpoints = storage.checkpoints
                  /\ ~state'.is_failed
                  /\ outcome' = outcome
                  /\ pc' = "loop"
                  /\ iteration < max_iterations => LoopContinues'
       /\ (Finished' /\ action' \in {get_next_action(f) : f \in ApiFailures}) =>
              /\ llm_calls' = max_iterations
              /\ outcome'.value = IterationLimitMsg]_vars

\* Every oracle call of a run returned text that is not JSON and longer
\* than the part quoted in the thoughts, and the run ended at the iteration
\* limit with one thoughts message per call.
C21_Witness ==
    /\ Finished
    /\ env.failure.kind = "not_json"
    /\ Len(env.failure.text) > RawResponseLimit
    /\ action = get_next_action(env.failure)
    /\ llm_calls = max_iterations
    /\ Len(state.messages) = max_iterations + 1
    /\ state.tool_executions = <<>>
    /\ outcome.value = IterationLimitMsg

\* The frame of a step in which storage.create_checkpoint fails after a
\* tool execution: the task is not marked failed, nothing is raised, the
\* call is at the loop head, the record of the execution is appended and
\* persisted, checkpoint_count and the stored checkpoints are as before.
CheckpointFailureFrame ==
    /\ ~state'.is_failed
    /\ outcome' = outcome
    /\ pc' = "loop"
    /\ Len(state'.tool_executions) = Len(state.tool_executions) + 1
    /\ SubSeq(state'.tool_executions, 1, Len(state.tool_executions))
          = state.tool_executions
    /\ state'.tool_executions[Len(state'.tool_executions)].tool_name
          = action.tool_name
    /\ load_state(storage', task_id).tool_executions = state'.tool_executions
    /\ checkpoint_count' = checkpoint_count
    /\ StoredCheckpoints' = StoredCheckpoints

\* A step in which storage.create_checkpoint fails.
CheckpointFailureStep ==
    /\ "create_checkpoint:raise" \in Range(events')
    /\ "create_checkpoint:raise" \notin Range(events)

\* C22 as stated: when storage.create_checkpoint fails after a tool
\* execution, the failure is absorbed: the task is not marked failed,
\* nothing is raised, the loop goes on with the next iteration, the tool
\* execution record just appended stays, and checkpoint_count is not
\* incremented.
C22_CheckpointFailureAbsorbed ==
    [][CheckpointFailureStep => (CheckpointFailureFrame /\ LoopContinues')]_vars

\* C22, amended: as C22, but the loop goes on with the next iteration only
\* when the execution was not in the last iteration the iteration limit
\* allows; in that iteration the loop ends as it does after any execution.
C22_CheckpointFailure ==
    [][CheckpointFailureStep =>
          /\ CheckpointFailureFrame
          /\ LoopContinues' = (iteration < max_iterations)]_vars

\* The checkpoint of the first tool execution failed and that of the second
\* succeeded: with max_checkpoints 1 the only checkpoint stored holds both
\* records.
C22_Witness ==
    /\ config.auto_checkpoint
    /\ config.max_checkpoints = 1
    /\ checkpoint_count = 1
    /\ Len(state.tool_executions) = 2
    /\ ~state.is_failed
    /\ \E c \in storage.checkpoints : Len(json_load(c.state).tool_executions) = 2

\* The engine's step on an action a with is_complete true.
CompletionStep(a) ==
    /\ pc = "llm"
    /\ llm_calls' = llm_calls + 1
    /\ action' = a
    /\ a.is_complete

\* C23: when the oracle returns is_complete true, execute_task returns the
\* action's result, or its thoughts when the result is absent, and ends
\* with is_complete true and is_failed false; tool_executions holds the
\* records of the tools executed in the earlier iterations, unchanged.
C23_CompletionReturns ==
    [][\A a \in OracleActions(iteration) :
         CompletionStep(a) =>
            /\ outcome' = [kind |-> "return",
                           value |-> IF a.result # NoText THEN a.result
                                     ELSE a.thoughts]
            /\ state'.is_complete
            /\ ~state'.is_failed
            /\ state'.tool_executions = state.tool_executions
            /\ \A i \in 1..Len(state'.tool_executions) :
                  /\ state'.tool_executions[i].tool_name \in RegisteredTools
                  /\ state'.tool_executions[i].args = "x=1"]_vars

\* C24: in every TaskState reached by calls of its methods, start_new_task,
\* mark_complete and mark_failed among them, is_failed implies is_complete.
C24_FailedImpliesComplete == state.is_failed => state.is_complete

\* The last call marked the second task failed.
C24_Witness ==
    /\ state.task = "u"
    /\ state.is_failed
    /\ state.is_complete
    /\ state.error_message = "boom"
    /\ state.end_time # NoTime
    /\ events = <<"mark_failed">>

\* C25: once is_complete is true during execute_task, the engine makes no
\* further oracle call, approval request, tool execution or checkpoint
\* creation for that task: the step that sets is_complete ends the call,
\* nothing but the oracle call or the debug callback that led to it happens
\* in that step, and while the task is complete the engine does nothing for
\* it.
C25_NothingAfterComplete ==
    [][/\ state.is_complete => pc = "idle"
       /\ (~state.is_complete /\ state'.is_complete) =>
             /\ pc' = "idle"
             /\ outcome'.kind # "none"
             /\ SubSeq(events', 1, Len(events)) = events
             /\ SubSeq(events', Len(events) + 1, Len(events'))
                   \in {<<>>, <<"get_next_action">>, <<"on_break:llm">>,
                        <<"on_break:tool">>}
             /\ state'.tool_executions = state.tool_executions
             /\ checkpoint_count' = checkpoint_count
             /\ storage'.checkpoints = storage.checkpoints
       /\ (state.is_complete /\ task_id' = task_id) =>
             /\ llm_calls' = llm_calls
             /\ events' = events
             /\ state'.tool_executions = state.tool_executions
             /\ checkpoint_count' = checkpoint_count
             /\ storage'.checkpoints = storage.checkpoints]_vars

\* The oracle completed the task after a tool had been executed, in an
\* engine that could still create a checkpoint.
C25_Witness ==
    /\ Finished
    /\ outcome.kind = "return"
    /\ state.is_complete
    /\ ~state.is_failed
    /\ Len(state.tool_executions) >= 1
    /\ llm_calls = Len(state.tool_executions) + 1
    /\ config.auto_checkpoint

\* Sequence xs is an initial part of sequence ys.
IsPrefix(xs, ys) ==
    /\ Len(xs) <= Len(ys)
    /\ SubSeq(ys, 1, Len(xs)) = xs

\* C26: within a task's life, from one start_new_task to the next,
\* tool_executions and messages are append-only: every method call other
\* than start_new_task leaves the entries already there as they are and in
\* place, and at most adds entries at the end.
C26_AppendOnly ==
    [][events' # <<"start_new_task">> =>
          /\ IsPrefix(state.messages, state'.messages)
          /\ IsPrefix(state.tool_executions, state'.tool_executions)]_vars

\* Two messages and a tool execution were added to a started task, in the
\* order of their timestamps.
C26_Witness ==
    /\ state.task # NoText
    /\ Len(state.messages) >= 2
    /\ Len(state.tool_executions) >= 1
    /\ state.messages[1].timestamp.datetime < state.messages[2].timestamp.datetime
    /\ events # <<"start_new_task">>

\* C27: start_new_task empties messages and tool_executions, clears
\* end_time, is_complete, is_failed and error_message and sets
\* consecutive_auto_approvals to 0, and leaves context and related_tasks as
\* they were, so that a later task sees the context of the earlier ones.
C27_StartNewTaskFrame ==
    [][events' = <<"start_new_task">> =>
          /\ state'.messages = <<>>
          /\ state'.tool_executions = <<>>
          /\ state'.end_time = NoTime
          /\ ~state'.is_complete
          /\ ~state'.is_failed
          /\ state'.error_message = NoText
          /\ state'.consecutive_auto_approvals = 0
          /\ state'.context = state.context
          /\ state'.related_tasks = state.related_tasks
          /\ <<state'.task, state'.task_id>> \in StartedTasks]_vars

\* A task was started on a TaskState that held a context entry and a
\* related task from before.
C27_Witness ==
    /\ events = <<"start_new_task">>
    /\ state.task = "u"
    /\ state.context # <<>>
    /\ state.related_tasks # <<>>
    /\ state.messages = <<>>

\* C28: with debugging enabled, a debug callback supplied and step_by_step
\* true, on_break has fired before every oracle call and before every tool
\* call, in the first execute_task run of an engine and in every later one.
C28_StepByStepBreaks ==
    (config.debug.enabled /\ config.debug.step_by_step /\ debug_callback) =>
        /\ pc = "llm" => "on_break:llm" \in Range(events)
        /\ pc \in {"approval", "exec"} => "on_break:tool" \in Range(events)

\* C29: after every executed tool, once its record is appended and the
\* state persisted, the engine checks for a breakpoint at STATE: with a
\* debug callback and an enabled unconditional STATE breakpoint (or
\* step_by_step), on_break fires once after the tool execution.
C29_StateBreakAfterTool ==
    [][(/\ pc = "exec"
        /\ Len(state'.tool_executions) = Len(state.tool_executions) + 1
        /\ config.debug.enabled
        /\ debug_callback
        /\ should_break(debug_session, "state")) =>
            Occurrences(events', {"on_break:state"}) = 1]_vars

\* Breakpoint bp is enabled, of the kind asked, and has no condition or a
\* condition that evaluates truthy.
Matches(bp, bp_type) ==
    /\ bp.enabled
    /\ bp.type = bp_type
    /\ (~HasCondition(bp.condition) \/ bp.condition = "true")

\* C30: should_break returns false when the session is not active; while
\* active it returns true exactly if step_by_step is set or some enabled
\* breakpoint of the kind asked has no condition or a condition that
\* evaluates truthy; disabled breakpoints, breakpoints of another kind and
\* conditions that fail to evaluate do not count and do not keep the other
\* breakpoints from matching.
C30_ShouldBreak ==
    outcome.kind = "return" =>
        (outcome.value = "True" <=>
            /\ debug_session.active
            /\ \/ debug_session.step_by_step
               \/ \E i \in 1..Len(debug_session.breakpoints) :
                     Matches(debug_session.breakpoints[i], events[1]))

\* A break was reported for a session whose first breakpoint of the kind
\* asked has a condition that fails to evaluate and whose second matches.
C30_Witness ==
    /\ outcome = [kind |-> "return", value |-> "True"]
    /\ ~debug_session.step_by_step
    /\ Len(debug_session.breakpoints) >= 2
    /\ debug_session.breakpoints[1] =
          [type |-> events[1], condition |-> "error", enabled |-> TRUE]
    /\ debug_session.breakpoints[2].condition = "true"

\* C31: get_current_rpm() and get_wait_time() are read-only: on every window
\* and at every clock value a call of either leaves the list of registered
\* timestamps and rpm as they were, and get_current_rpm() returns the number
\* of registered timestamps strictly newer than now - 60 s.
NewerThan(requests, instant) == SelectSeq(requests, LAMBDA ts : ts > instant)
ReaderReturned(name) == rl_answer' # rl_answer /\ rl_answer'.call = name
C31_ReadersAreReadOnly ==
    [][/\ (ReaderReturned("get_current_rpm") \/ ReaderReturned("get_wait_time"))
          => /\ rl_requests' = rl_requests
             /\ rl_rpm' = rl_rpm
             /\ rl_now' = rl_now
       /\ ReaderReturned("get_current_rpm")
          => rl_answer'.value = Len(NewerThan(rl_requests, rl_now - RLWindow))]_vars

\* get_current_rpm() answered on a full window whose oldest timestamp lies
\* exactly on window_start, and did not count it.
C31_Witness ==
    /\ rl_answer.call = "get_current_rpm"
    /\ Len(rl_requests) = MaxWindowLen
    /\ rl_requests[1] = rl_now - RLWindow
    /\ rl_requests[2] > rl_requests[1]
    /\ rl_answer.value = Len(rl_requests) - 1

\* C32: at the moment of every oracle call, and whenever execute_task has
\* exited, the snapshot stored under the current task_id equals the
\* in-memory TaskState: messages, tool executions, context, counter, flags.
C32_PersistedAtOracleCallAndExit ==
    (pc = "llm" \/ Finished) =>
        LET stored == load_state(storage, task_id)
        IN /\ stored # NoState
           /\ stored.messages = state.messages
           /\ stored.tool_executions = state.tool_executions
           /\ stored.context = state.context
           /\ stored.consecutive_auto_approvals = state.consecutive_auto_approvals
           /\ stored.is_complete = state.is_complete
           /\ stored.is_failed = state.is_failed
           /\ stored = state

\* The oracle is called after an auto-approved tool ran and after a no-op
\* answer: the counter and the assistant messages are in the stored snapshot.
C32_Witness ==
    /\ pc = "llm"
    /\ iteration >= 3
    /\ state.consecutive_auto_approvals >= 1
    /\ Len(state.tool_executions) >= 1
    /\ state.messages[Len(state.messages)].content = "th"
    /\ load_state(storage, task_id).consecutive_auto_approvals >= 1

\* C33: within one task, each checkpoint the engine creates holds the
\* TaskState as it is right after the record of the triggering tool was
\* appended (the snapshot's tool_executions ends with that record), and of
\* any two checkpoints of a task the earlier one's tool_executions and
\* messages are prefixes of the later one's.
C33_CheckpointSnapshots ==
    /\ [](\A i, j \in 1..Len(StoredCheckpoints) :
            i < j => /\ IsPrefix(json_load(StoredCheckpoints[i].state).tool_executions,
                                 json_load(StoredCheckpoints[j].state).tool_executions)
                     /\ IsPrefix(json_load(StoredCheckpoints[i].state).messages,
                                 json_load(StoredCheckpoints[j].state).messages))
    /\ [][Len(StoredCheckpoints') > Len(StoredCheckpoints) =>
            LET created == StoredCheckpoints'[Len(StoredCheckpoints')]
                snapshot == json_load(created.state)
                n == Len(snapshot.tool_executions)
            IN /\ created.task_id = task_id
               /\ n = Len(state.tool_executions) + 1
               /\ SubSeq(snapshot.tool_executions, 1, n - 1) = state.tool_executions
               /\ snapshot.tool_executions[n].tool_name = action.tool_name
               /\ snapshot.tool_executions[n].args = action.tool_args
               /\ snapshot = state']_vars

\* A task has two checkpoints; the later one holds one more tool execution
\* and more messages than the earlier one.
C33_Witness ==
    /\ Len(StoredCheckpoints) = 2
    /\ Len(json_load(StoredCheckpoints[1].state).tool_executions) = 1
    /\ Len(json_load(StoredCheckpoints[2].state).tool_executions) = 2
    /\ Len(json_load(StoredCheckpoints[2].state).messages)
          > Len(json_load(StoredCheckpoints[1].state).messages)

\* C34: every request the adapter sends follows one completed acquire() of
\* the same get_next_action call: the requests sent never exceed the
\* acquire() calls that returned nor the timestamps registered, at most rpm
\* requests are sent in any window of 60 seconds, and a get_next_action
\* whose acquire() raises sends no request.
SentInWindowEndingAt(instant) ==
    Cardinality({i \in 1..Len(rl_sent) :
                    rl_sent[i] > instant - RLWindow /\ rl_sent[i] <= instant})
C34_RequestsFollowAcquire ==
    /\ [](/\ Len(rl_sent) <= rl_acquired
          /\ \A i \in 1..Len(rl_sent) : SentInWindowEndingAt(rl_sent[i]) <= rl_rpm)
    /\ [][/\ Len(rl_sent') > Len(rl_sent)
             => /\ rl_acquired > Len(rl_sent)
                /\ rl_requests # <<>>
                /\ rl_requests[Len(rl_requests)] = rl_now
                /\ rl_sent' = Append(rl_sent, rl_now)
          /\ (action' # action /\ ~action'.is_complete /\ action'.tool_name = NoText)
             => rl_sent' = rl_sent /\ rl_requests' = rl_requests]_vars

\* The adapter sent rpm requests in one window and a further one once the
\* window had moved on.
C34_Witness ==
    /\ rl_rpm = 2
    /\ Len(rl_sent) = 3
    /\ rl_sent[3] - rl_sent[1] >= RLWindow
    /\ rl_sent[2] - rl_sent[1] < RLWindow

\* C35: with max_consecutive_auto_approvals >= 0 the counter stays within
\* 0..max_consecutive_auto_approvals in every reachable state, and with
\* auto_approve_tools no more than max_consecutive_auto_approvals tools are
\* executed in a row without a get_approval call for them.
C35_CounterBounded ==
    MaxCounter >= 0 =>
        /\ 0 <= Counter
        /\ Counter <= MaxCounter
        /\ config.auto_approve_tools => auto_run <= MaxCounter

\* A granted tool and then an auto-approved one have executed: the counter
\* and the run of unapproved executions are both at the maximum.
C35_Witness ==
    /\ config.auto_approve_tools
    /\ MaxCounter = 1
    /\ Counter = MaxCounter
    /\ auto_run = MaxCounter
    /\ Len(state.tool_executions) = 3
    /\ pc = "loop"

\* C36: when execute_task has failed at the iteration limit, the final
\* error_message, in memory and as persisted, is "Maximum iterations
\* reached".
C36_LimitMessageKept ==
    (Finished /\ outcome = [kind |-> "raise", value |-> IterationLimitMsg]) =>
        /\ state.error_message = "Maximum iterations reached"
        /\ load_state(storage, task_id).error_message = "Maximum iterations reached"

\* C37: execute_task called while llm is not initialized raises at entry
\* and starts no task: task_id, every field of the TaskState, the stored
\* states and checkpoints and the DebugSession are as before the call.
C37_NoLLMFrame ==
    [][(pc = "idle" /\ ~LLMInitialized) =>
          /\ outcome' = [kind |-> "raise", value |-> "LLM provider not initialized"]
          /\ task_id' = task_id
          /\ state' = state
          /\ storage' = storage
          /\ debug_session' = debug_session
          /\ debug_callback' = debug_callback
          /\ checkpoint_count' = checkpoint_count
          /\ pc' = "idle"]_vars

\* The call was refused on an engine that had run a task with a tool
\* execution and a checkpoint.
C37_Witness ==
    /\ ~LLMInitialized
    /\ outcome = [kind |-> "raise", value |-> "LLM provider not initialized"]
    /\ state.task = "t"
    /\ Len(state.tool_executions) >= 1
    /\ Len(StoredCheckpoints) = 1
    /\ load_state(storage, task_id) = state

\* C38: when the oracle's action has is_complete true and also names a
\* tool, the task completes in that iteration and the tool is neither looked
\* up, checked against a breakpoint, submitted for approval nor executed: an
\* unregistered name in a completing action does not fail the task.
C38_CompletionPrecedence ==
    [][\A a \in OracleActions(iteration) :
         (CompletionStep(a) /\ a.tool_name # NoText) =>
            /\ outcome'.kind = "return"
            /\ pc' = "idle"
            /\ state'.is_complete
            /\ ~state'.is_failed
            /\ events' = Append(events, "get_next_action")
            /\ state'.tool_executions = state.tool_executions
            /\ state'.consecutive_auto_approvals = state.consecutive_auto_approvals
            /\ checkpoint_count' = checkpoint_count]_vars

\* C39: in every window reached through acquire() calls and at every clock
\* value, once the event loop has run every caller that could run,
\* get_wait_time() returns 0 exactly when an acquire() issued at that moment
\* would register its timestamp and return without suspending, and otherwise
\* it returns the positive wait that acquire() computes for its sleep.
AcquireWouldRegisterAtOnce ==
    LockIsFree /\ ~AtRateLimit(RemoveExpired(rl_requests, rl_now - RLWindow))
C39_WaitTimeAgreesWithAcquire ==
    [][(ReaderReturned("get_wait_time") /\ \A c \in Callers : ~CanResume(c)) =>
          /\ (rl_answer'.value = 0) <=> AcquireWouldRegisterAtOnce
          /\ rl_answer'.value > 0 =>
                rl_answer'.value
                   = WaitTime(RemoveExpired(rl_requests, rl_now - RLWindow), rl_now)]_vars

\* C40: in the JSON store the checkpoints of different tasks are isolated:
\* for all task ids t and u, u beginning with t and an underscore included,
\* list_checkpoints(t) returns only checkpoints whose task_id is t, and the
\* checkpoints created for t are numbered and linked among themselves
\* whatever checkpoints were created for u.
CreatedFor(tid) == SelectSeq(st_created, LAMBDA c : c.task_id = tid)
C40_CheckpointIsolation ==
    \A t \in StoreIds :
        /\ \A k \in 1..Len(list_checkpoints(st_fs, t)) :
              list_checkpoints(st_fs, t)[k].task_id = t
        /\ \A k \in 1..Len(CreatedFor(t)) :
              /\ CreatedFor(t)[k].id = Append(t, k)
              /\ CreatedFor(t)[k].parent_id =
                    IF k = 1 THEN NoId ELSE CreatedFor(t)[k - 1].id

====
